---- MODULE Spec2Model ----
(***************************************************************************)
(* Synchronization engine of zido-ecom-tool: the in-memory progress        *)
(* tracker and the start/poll route (app/api/sync/background/route.ts),    *)
(* the unified orchestrator (server/sync/orchestrator.ts) and the three    *)
(* direct-datastore reconciliation passes (products-db, orders-db,         *)
(* customers-db), over a local relational store with the unique indexes of *)
(* the prisma migrations.                                                  *)
(*                                                                         *)
(* Node runs the handlers on one thread: every action below is the code    *)
(* between two awaits of one handler, so actions of different requests,    *)
(* runs and tasks interleave exactly at the awaits.                        *)
(***************************************************************************)
EXTENDS Integers, Sequences, FiniteSets, TLC

\* ---------------------------------------------------------------- bounds
MaxRequests == 2      \* start requests issued in one behaviour
MaxSrcChanges == 1    \* modifications of the source while the engine runs
MaxFaults == 1        \* transport or storage calls that fail in one behaviour
MaxObjects == 2       \* complete objects in the body of one remote-API page

\* ---------------------------------------------------------------- domains
Stores == {"s1", "s2"}
Entities == {"products", "orders", "customers"}
Requests == 1..MaxRequests
NoEntry == 0          \* syncProgress.get(storeId) === undefined
NoCustomer == <<>>    \* customerId: null
NoProduct == <<>>     \* productId: null
GuestWooId == 0       \* wooId of a guest customer
Undef == -1           \* a field of SyncResult that was never assigned

VARIABLES
  now,            \* Date.now() / new Date(), in seconds
  stores,         \* local `stores` table: [Stores -> row]
  src,            \* the source schema of each store (wp_posts, wp_users, ...)
  srcChanges,     \* number of source modifications of each store so far
  products,       \* local `products` table (set of rows)
  customers,      \* local `customers` table
  orders,         \* local `orders` table
  orderItems,     \* local `order_items` table
  syncProgress,   \* the Map storeId -> entry object (an id into entries)
  entries,        \* the entry objects ever put into syncProgress
  req,            \* the start requests: position and response
  run,            \* performBackgroundSync/runUnifiedSync of each request
  task,           \* the three reconciliation tasks of each run
  faults,         \* transport/storage calls that have failed so far
  client,         \* fetchAll of the remote-API client: position, page, result
  call            \* one call of a utility function or of a route handler

vars == <<now, stores, src, srcChanges, products, customers, orders,
          orderItems, syncProgress, entries, req, run, task, faults, client,
          call>>

\* ---------------------------------------------------------------- helpers
Max(S) == CHOOSE x \in S : \A y \in S : y <= x
Min(S) == CHOOSE x \in S : \A y \in S : x <= y

\* the rows of one store in a local table
RowsOf(table, s) == {row \in table : row.storeId = s}


\* ---------------------------------------------------------------- source
\* A store's source schema.  products/orders are wp_posts rows of type
\* product/shop_order with their post_modified_gmt, users are wp_users rows,
\* an order carries its _billing_email / _billing_first_name meta and its
\* woocommerce_order_items rows of type line_item.
Item(i, p) == [id |-> i, product |-> p]
SrcOrder(i, t, e, f, its) ==
  [id |-> i, created |-> t, modified |-> t, email |-> e, first |-> f, items |-> its,
   customer |-> 0]       \* _customer_user: 0 for a guest order

\* the order of the registered user c (_customer_user = c)
SrcOrderOf(c, i, t, e, f, its) == [SrcOrder(i, t, e, f, its) EXCEPT !.customer = c]

EmptySource == [products |-> {}, users |-> {}, orders |-> {}]

\* one catalog item, one registered account (e3), and three guest orders:
\* two share the contact email e1 under different first names, one has e2
GuestSource ==
  [products |-> {[id |-> 1, modified |-> 1]},
   users    |-> {[id |-> 5, email |-> "e3", registered |-> 1]},
   orders   |-> {SrcOrder(1, 1, "e1", "a", {Item(11, 1), Item(12, 2)}),
                 SrcOrder(2, 2, "e1", "b", {}),
                 SrcOrder(3, 3, "e2", "a", {})}]

\* two catalog items, one registered account (e3) and one order with one line
\* item whose contact email is that of the account
LinkSource ==
  [products |-> {[id |-> 1, modified |-> 1], [id |-> 2, modified |-> 2]},
   users    |-> {[id |-> 5, email |-> "e3", registered |-> 1]},
   orders   |-> {SrcOrderOf(5, 1, 1, "e3", "a", {Item(11, 1)})}]

\* one catalog item, one registered account (5, e3) and one order of that
\* account placed under another billing email (e1)
OwnerSource ==
  [products |-> {[id |-> 1, modified |-> 1]},
   users    |-> {[id |-> 5, email |-> "e3", registered |-> 1]},
   orders   |-> {SrcOrderOf(5, 1, 1, "e1", "a", {Item(11, 1)})}]

ProductSource ==
  [products |-> {[id |-> 1, modified |-> 1]}, users |-> {}, orders |-> {}]

\* ---------------------------------------------------------------- records
StoreRow(ex, method, creds) ==
  [exists |-> ex, syncMethod |-> method, dbCreds |-> creds,
   lastSyncAt |-> [e \in Entities |-> 0]]     \* 0: the cursor column is null

NoRes == [fetched |-> 0, guestsFetched |-> 0, created |-> 0, updated |-> 0,
          errors |-> 0, orderItemsCreated |-> 0]

\* conn is the source-datastore connection of the pass: "none" before
\* mysql.createConnection returned one, then "open", and "closed" after end();
\* rows records what the main query of the pass returned
IdleTask == [pc |-> "idle", todo |-> {}, res |-> NoRes, wrote |-> FALSE,
             conn |-> "none", rows |-> {}]

\* orchestrator.ts:53-60, the SyncResult a run starts from
EmptyResult ==
  [e \in Entities |-> [count |-> 0, created |-> Undef, updated |-> Undef]]

\* rows of a store in the four local tables, as counted when a run ends
NoRows == [products |-> 0, customers |-> 0, orders |-> 0, orderItems |-> 0]

\* A run of performBackgroundSync/runUnifiedSync.  result, errors and thrown
\* are the locals of runUnifiedSync; the other fields record history:
\* configOk (the store existed with complete credentials when it was loaded),
\* after (the runs of the store that had finished when this one started),
\* srcAtStart/srcAtEnd (source modifications so far at start and end) and
\* rowsAtEnd (the local row counts of the store when the run finished)
IdleRun == [pc |-> "idle", store |-> "s1", method |-> "api",
            dbStore |-> [dbCreds |-> FALSE, lastSyncAt |-> [e \in Entities |-> 0]],
            result |-> EmptyResult, errors |-> <<>>, thrown |-> "",
            apiTodo |-> {}, configOk |-> TRUE, after |-> {},
            srcAtStart |-> 0, srcAtEnd |-> 0, rowsAtEnd |-> NoRows]

NoEntryObj == [status |-> "none", progress |-> 0, message |-> "",
               startTime |-> 0, endTime |-> 0, error |-> ""]

NewReq == [pc |-> "new", store |-> "s1", response |-> ""]

\* no fetchAll call is in progress.  status and body are the answer the remote
\* API gives to the first page request; complete and truncated record how the
\* body was built (its complete objects, and whether a cut-off one follows);
\* later holds the answers to the requests for pages 2, 3, ...; path is the
\* collection fetchAll is called for
IdleClient == [pc |-> "idle", status |-> 200, body |-> <<>>, page |-> 1,
               out |-> <<>>, requested |-> 0,
               complete |-> <<>>, truncated |-> FALSE, later |-> <<>>,
               path |-> "products"]

\* ---------------------------------------------------------------- Init
InitCommon ==
  /\ now = 3
  /\ srcChanges = [s \in Stores |-> 0]
  /\ faults = 0
  /\ products = {} /\ customers = {} /\ orders = {} /\ orderItems = {}
  /\ syncProgress = [s \in Stores |-> NoEntry]
  /\ entries = [r \in Requests |-> NoEntryObj]
  /\ req = [q \in Requests |-> NewReq]
  /\ run = [r \in Requests |-> IdleRun]
  /\ task = [r \in Requests |-> [e \in Entities |-> IdleTask]]

\* no utility function or further route handler is being called
NoCall == [pc |-> "idle"]

\* the engine's own state; the remote-API client is not in a fetchAll call
InitEngine ==
  /\ InitCommon
  /\ client = IdleClient
  /\ call = NoCall

\* Tracker and orchestrator: s1 syncs one catalog item over the direct
\* datastore; s2 is either a direct-datastore store whose credentials are
\* incomplete or a remote-API store
Init ==
  /\ InitEngine
  /\ \E s2 \in {StoreRow(TRUE, "db", FALSE), StoreRow(TRUE, "api", FALSE)} :
       /\ stores = [s \in Stores |-> IF s = "s1" THEN StoreRow(TRUE, "db", TRUE) ELSE s2]
       /\ src = [s \in Stores |->
                   IF s = "s1" \/ s2.syncMethod = "api" THEN ProductSource
                   ELSE EmptySource]

\* Reconciliation: the only store is s1, which syncs the guest orders over
\* the direct datastore
ReconStores == {"s1"}

InitRecon ==
  /\ InitEngine
  /\ stores = [s \in Stores |-> IF s \in ReconStores THEN StoreRow(TRUE, "db", TRUE)
                                ELSE StoreRow(FALSE, "api", FALSE)]
  /\ src = [s \in Stores |-> IF s \in ReconStores THEN GuestSource ELSE EmptySource]

\* ---------------------------------------------------------------- tracker
\* background/route.ts:170-177: the callback writes progress and message
\* into whatever entry the map holds for the store at that moment
ProgressCallback(ent, s, p, m) ==
  IF syncProgress[s] = NoEntry THEN ent
  ELSE [ent EXCEPT ![syncProgress[s]].progress = p,
                   ![syncProgress[s]].message = m]

\* a sequence of progressCallback calls made without an await in between
RECURSIVE ProgressCallbacks(_, _, _)
ProgressCallbacks(ent, s, calls) ==
  IF calls = <<>> THEN ent
  ELSE ProgressCallbacks(ProgressCallback(ent, s, Head(calls)[1], Head(calls)[2]),
                         s, Tail(calls))

\* line 57 with the test of the status left out of step with the map: an
\* entry counts as running only once its run has ended
AlreadyRunning_ended(s) ==
  /\ syncProgress[s] # NoEntry
  /\ entries[syncProgress[s]].status # "running"
\* line 57 left out: every start request launches a run
AlreadyRunning_never(s) == FALSE
\* background/route.ts:57
AlreadyRunning(s) ==
  /\ syncProgress[s] # NoEntry
  /\ entries[syncProgress[s]].status = "running"

\* the poll answers the idle placeholder whatever the map holds
GET_idle(s) ==
  [status |-> "idle", progress |-> 0, message |-> "No sync in progress",
   startTime |-> 0, endTime |-> 0, error |-> ""]
\* background/route.ts:128-153, the body of the poll answer
GET(s) ==
  IF syncProgress[s] = NoEntry
  THEN [status |-> "idle", progress |-> 0, message |-> "No sync in progress",
        startTime |-> 0, endTime |-> 0, error |-> ""]
  ELSE [status    |-> entries[syncProgress[s]].status,
        progress  |-> entries[syncProgress[s]].progress,
        message   |-> entries[syncProgress[s]].message,
        startTime |-> entries[syncProgress[s]].startTime,
        endTime   |-> entries[syncProgress[s]].endTime,
        error     |-> entries[syncProgress[s]].error]

\* background/route.ts:92-153: a status poll of an authenticated caller for
\* store s; the store lookup answers 404 when the store does not exist, and
\* the map is read once, after the lookup
Poll(s) ==
  /\ call.pc \in {"idle", "polled"}
  /\ call' = [pc |-> "polled", store |-> s,
              status |-> IF stores[s].exists THEN 200 ELSE 404,
              data |-> IF stores[s].exists THEN GET(s) ELSE <<>>]
  /\ UNCHANGED <<now, stores, src, srcChanges, products, customers, orders,
                 orderItems, syncProgress, entries, req, run, task, faults,
                 client>>

\* ---------------------------------------------------------------- POST
\* background/route.ts:20-54: a start request arrives and awaits
\* prisma.store.findFirst; requests take the ids 1, 2, ... in order of arrival
PostLookup(s) ==
  \E q \in Requests :
    /\ req[q].pc = "new"
    /\ \A p \in Requests : p < q => req[p].pc # "new"
    /\ req' = [req EXCEPT ![q] =
                 IF stores[s].exists
                 THEN [pc |-> "found", store |-> s, response |-> ""]
                 ELSE [pc |-> "answered", store |-> s, response |-> "Store not found"]]
    /\ UNCHANGED <<now, stores, src, srcChanges, products, customers, orders,
                   orderItems, syncProgress, entries, run, task, faults, client, call>>

\* background/route.ts:56-80, and performBackgroundSync/runUnifiedSync up to
\* their first await (orchestrator.ts:64)
POST(q) ==
  /\ req[q].pc = "found"
  /\ LET s == req[q].store IN
       IF AlreadyRunning(s)
       THEN /\ req' = [req EXCEPT ![q].pc = "answered",
                                  ![q].response = "Sync already running"]
            /\ UNCHANGED <<syncProgress, entries, run>>
       ELSE /\ entries' = [entries EXCEPT ![q] =
                             [status |-> "running", progress |-> 0,
                              message |-> "Starting sync...", startTime |-> now,
                              endTime |-> 0, error |-> ""]]
            /\ syncProgress' = [syncProgress EXCEPT ![s] = q]
            /\ run' = [run EXCEPT ![q] =
                         [IdleRun EXCEPT
                            !.pc = "load", !.store = s,
                            !.after = {p \in Requests : run[p].pc = "done"
                                                        /\ run[p].store = s},
                            !.srcAtStart = srcChanges[s]]]
            /\ req' = [req EXCEPT ![q].pc = "answered",
                                  ![q].response = "Background sync started"]
  /\ UNCHANGED <<now, stores, src, srcChanges, products, customers, orders,
                 orderItems, task, faults, client, call>>

\* ---------------------------------------------------------------- orchestrator
\* the validation of line 83 left out
CredentialsComplete_always(st) == TRUE
\* orchestrator.ts:83
CredentialsComplete(st) == st.dbCreds

DbStartCalls == << <<10, "Using direct database connection...">>,
                   <<20, "Starting parallel sync...">>,
                   <<30, "Syncing products from database...">>,
                   <<50, "Syncing orders from database...">>,
                   <<70, "Syncing customers from database...">> >>

ApiStartCalls == << <<10, "Decrypting API credentials...">>,
                    <<20, "Connecting to WooCommerce API...">>,
                    <<30, "Starting parallel sync...">>,
                    <<40, "Fetching products from API...">>,
                    <<50, "Fetching orders from API...">>,
                    <<60, "Fetching customers from API...">> >>

\* orchestrator.ts:64-121 and 167-212: the store is loaded, the credentials
\* are validated and the three tasks are started; each task runs to its first
\* await (connectWooDB, or the first page request)
RunLoadStore(r) ==
  /\ run[r].pc = "load"
  /\ LET s  == run[r].store
         st == stores[s]
         ok == st.exists /\ (st.syncMethod = "db" => st.dbCreds)
     IN
       IF ~st.exists
       THEN /\ run' = [run EXCEPT ![r].pc = "threw", ![r].configOk = ok,
                                  ![r].thrown = "Store not found"]
            /\ UNCHANGED <<entries, task>>
       ELSE IF st.syncMethod = "db"
       THEN IF ~CredentialsComplete(st)
            THEN /\ entries' = ProgressCallbacks(entries, s, SubSeq(DbStartCalls, 1, 1))
                 /\ run' = [run EXCEPT ![r].pc = "threw", ![r].method = "db",
                                       ![r].configOk = ok,
                                       ![r].thrown = "Database credentials are incomplete"]
                 /\ UNCHANGED task
            ELSE /\ entries' = ProgressCallbacks(entries, s, DbStartCalls)
                 /\ run' = [run EXCEPT ![r].pc = "join", ![r].method = "db",
                                       ![r].configOk = ok,
                                       ![r].dbStore = [dbCreds |-> st.dbCreds,
                                                       lastSyncAt |-> st.lastSyncAt]]
                 /\ task' = [task EXCEPT ![r] =
                               [e \in Entities |-> [IdleTask EXCEPT !.pc = "connect"]]]
       ELSE /\ entries' = ProgressCallbacks(entries, s, ApiStartCalls)
            /\ run' = [run EXCEPT ![r].pc = "join", ![r].method = "api",
                                  ![r].configOk = ok]
            /\ task' = [task EXCEPT ![r] =
                          [e \in Entities |-> [IdleTask EXCEPT !.pc = "apiFetch"]]]
  /\ UNCHANGED <<now, stores, src, srcChanges, products, customers, orders,
                 orderItems, syncProgress, req, faults, client, call>>

\* ---------------------------------------------------------------- local store
\* the lookup by remote id alone, over the rows of all stores
FindByKey_anyStore(table, s, w) == {row \in table : row.wooId = w}
\* prisma.<model>.findUnique({ where: { storeId_wooId } })
FindByKey(table, s, w) == {row \in table : row.storeId = s /\ row.wooId = w}

\* the table without its unique index: no INSERT is rejected
UniqueViolation_off(table, s, w) == FALSE
\* the unique indexes <table>_storeId_wooId_key of the migrations: an INSERT
\* of a second row with the same (storeId, wooId) is rejected
UniqueViolation(table, s, w) == FindByKey(table, s, w) # {}

\* prisma.customer.findFirst({ where: { storeId, email } })
FindByEmail(s, email) == {c \in customers : c.storeId = s /\ c.email = email}

\* Primary keys are opaque unique strings (cuid); a new row takes the first
\* id <<key, k>> that no row of the table has
FreshId(table, key) ==
  <<key, Min({k \in 0..Cardinality(table) : \A row \in table : row.id # <<key, k>>})>>

\* a transport or storage call either returns or fails; at most MaxFaults
\* calls fail in one behaviour
Fault(ok) ==
  \/ ok /\ UNCHANGED faults
  \/ ~ok /\ faults < MaxFaults /\ faults' = faults + 1

\* ---------------------------------------------------------------- queries
Limit == 1000    \* LIMIT 1000 of the three main queries and the guest query

\* the first Limit rows in ascending order of the timestamp T
Limited(rows, T(_)) ==
  IF Cardinality(rows) <= Limit THEN rows
  ELSE CHOOSE part \in SUBSET rows :
         /\ Cardinality(part) = Limit
         /\ \A a \in part, b \in rows \ part : T(a) <= T(b)

\* products-db.ts:52-54 (and the same lines of the other two passes): the
\* cursor the run read from the store row, null meaning 1970-01-01; times are
\* whole seconds, as after toISOString().slice(0, 19)
lastSync(r, e) == run[r].dbStore.lastSyncAt[e]

\* products-db.ts:59-69, orders-db.ts (woocommerce.ts:826-834),
\* customers-db.ts (woocommerce.ts:569-576): the main query of a pass
MainRows(r, e) ==
  LET s == run[r].store IN
  CASE e = "products" ->
         Limited({p \in src[s].products : p.modified > lastSync(r, e)},
                 LAMBDA p : p.modified)
    [] e = "orders" ->
         Limited({o \in src[s].orders : o.modified > lastSync(r, e)},
                 LAMBDA o : o.modified)
    [] e = "customers" ->
         Limited({u \in src[s].users : u.registered > lastSync(r, e)},
                 LAMBDA u : u.registered)

\* woocommerce.ts:655-675: one row per distinct (email, first name) of the
\* orders placed after the cursor whose email belongs to no wp_users row
GuestRows(r) ==
  LET s == run[r].store IN
  Limited({[email |-> o.email, first |-> o.first] :
             o \in {x \in src[s].orders :
                      /\ x.created > lastSync(r, "customers")
                      /\ x.email # ""
                      /\ ~\E u \in src[s].users : u.email = x.email}},
          LAMBDA g : 0)

\* where a pass goes when `todo` is what is left of its rows
AfterRows(e, todo) ==
  IF todo # {} THEN "rows"
  ELSE IF e = "customers" THEN "guestQuery" ELSE "cursor"

\* ---------------------------------------------------------------- passes
\* woocommerce-db.ts:23-49, the ways connectWooDB ends: it returns an open
\* connection; it raises before or in mysql.createConnection (no connection);
\* or connection.ping() raises and the catch of lines 45-48 rethrows without
\* ending the connection createConnection returned
connectWooDB(creds) ==
  IF ~creds THEN {[ok |-> FALSE, conn |-> "none"]}
  ELSE {[ok |-> TRUE,  conn |-> "open"],
        [ok |-> FALSE, conn |-> "none"],
        [ok |-> FALSE, conn |-> "open"]}

\* woocommerce-db.ts:56-62: the connection is ended, errors are swallowed
closeWooDB(conn) == "closed"

\* connectWooDB and the main query of the pass; a failure of connectWooDB
\* rejects the task, a failure of the query rejects it through the finally
\* block that closes the connection
TaskFetch(r, e) ==
  /\ task[r][e].pc = "connect"
  /\ \E c \in connectWooDB(run[r].dbStore.dbCreds), queried \in BOOLEAN :
       /\ ~c.ok => queried
       /\ Fault(c.ok /\ queried)
       /\ IF c.ok /\ queried
          THEN LET rows == MainRows(r, e) IN
               task' = [task EXCEPT ![r][e].todo = rows,
                                    ![r][e].rows = rows,
                                    ![r][e].res.fetched = Cardinality(rows),
                                    ![r][e].pc = AfterRows(e, rows),
                                    ![r][e].conn = c.conn]
          ELSE task' = [task EXCEPT ![r][e].pc = "rejected",
                                    ![r][e].conn = IF c.ok THEN closeWooDB(c.conn)
                                                   ELSE c.conn]
  /\ UNCHANGED <<now, stores, src, srcChanges, products, customers, orders,
                 orderItems, syncProgress, entries, req, run, client, call>>

\* products-db.ts:75-167: one iteration of the product loop
SyncProduct(r) ==
  LET e == "products"
      s == run[r].store
      todo == task[r][e].todo
  IN
  /\ task[r][e].pc = "rows"
  /\ \E p \in todo, ok \in BOOLEAN :
       /\ p.modified = Min({x.modified : x \in todo})
       /\ Fault(ok)
       /\ LET rest == todo \ {p}
              existing == FindByKey(products, s, p.id)
          IN
          IF ok /\ stores[s].exists
          THEN /\ products' = IF existing # {} THEN products
                              ELSE products \cup
                                   {[id |-> FreshId(products, <<s, p.id>>),
                                     storeId |-> s, wooId |-> p.id]}
               /\ task' = [task EXCEPT
                    ![r][e].todo = rest, ![r][e].pc = AfterRows(e, rest),
                    ![r][e].wrote = TRUE,
                    ![r][e].res.updated = IF existing # {} THEN @ + 1 ELSE @,
                    ![r][e].res.created = IF existing # {} THEN @ ELSE @ + 1]
          ELSE /\ task' = [task EXCEPT
                    ![r][e].todo = rest, ![r][e].pc = AfterRows(e, rest),
                    ![r][e].res.errors = @ + 1]
               /\ UNCHANGED products
  /\ UNCHANGED <<now, stores, src, srcChanges, customers, orders,
                 orderItems, syncProgress, entries, req, run, client, call>>

\* customers-db.ts (woocommerce.ts:582-649): one iteration of the loop over
\* the registered users
SyncUser(r) ==
  LET e == "customers"
      s == run[r].store
      todo == task[r][e].todo
  IN
  /\ task[r][e].pc = "rows"
  /\ \E u \in todo, ok \in BOOLEAN :
       /\ u.registered = Min({x.registered : x \in todo})
       /\ Fault(ok)
       /\ LET rest == todo \ {u}
              existing == FindByKey(customers, s, u.id)
          IN
          IF ok /\ stores[s].exists
          THEN /\ customers' =
                    IF existing # {}
                    THEN (customers \ existing) \cup
                         {[c EXCEPT !.email = u.email] : c \in existing}
                    ELSE customers \cup
                         {[id |-> FreshId(customers, <<s, u.id, u.email>>),
                           storeId |-> s, wooId |-> u.id, email |-> u.email]}
               /\ task' = [task EXCEPT
                    ![r][e].todo = rest, ![r][e].pc = AfterRows(e, rest),
                    ![r][e].wrote = TRUE,
                    ![r][e].res.updated = IF existing # {} THEN @ + 1 ELSE @,
                    ![r][e].res.created = IF existing # {} THEN @ ELSE @ + 1]
          ELSE /\ task' = [task EXCEPT
                    ![r][e].todo = rest, ![r][e].pc = AfterRows(e, rest),
                    ![r][e].res.errors = @ + 1]
               /\ UNCHANGED customers
  /\ UNCHANGED <<now, stores, src, srcChanges, products, orders,
                 orderItems, syncProgress, entries, req, run, client, call>>

\* customers-db.ts (woocommerce.ts:655-678): the guest discovery query
TaskGuestQuery(r) ==
  LET e == "customers" IN
  /\ task[r][e].pc = "guestQuery"
  /\ \E ok \in BOOLEAN :
       /\ Fault(ok)
       /\ IF ok
          THEN LET rows == GuestRows(r) IN
               task' = [task EXCEPT
                    ![r][e].todo = rows,
                    ![r][e].res.guestsFetched = Cardinality(rows),
                    ![r][e].pc = IF rows = {} THEN "cursor" ELSE "guests"]
          ELSE task' = [task EXCEPT ![r][e].pc = "rejected",
                                    ![r][e].conn = closeWooDB(@)]
  /\ UNCHANGED <<now, stores, src, srcChanges, products, customers, orders,
                 orderItems, syncProgress, entries, req, run, client, call>>

\* customers-db.ts (woocommerce.ts:681-727): one iteration of the guest loop;
\* the query has no ORDER BY, so the rows come in any order
SyncGuest(r) ==
  LET e == "customers"
      s == run[r].store
      todo == task[r][e].todo
  IN
  /\ task[r][e].pc = "guests"
  /\ \E g \in todo, ok \in BOOLEAN :
       /\ Fault(ok)
       /\ LET rest == todo \ {g}
              next == IF rest = {} THEN "cursor" ELSE "guests"
              existing == FindByEmail(s, g.email)
          IN
          IF ok /\ stores[s].exists /\ existing # {}
          THEN \* prisma.customer.update of the row found by email
               /\ task' = [task EXCEPT
                    ![r][e].todo = rest, ![r][e].pc = next,
                    ![r][e].wrote = TRUE, ![r][e].res.updated = @ + 1]
               /\ UNCHANGED customers
          ELSE IF ok /\ stores[s].exists
                     /\ ~UniqueViolation(customers, s, GuestWooId)
          THEN \* prisma.customer.create with wooId 0
               /\ customers' = customers \cup
                    {[id |-> FreshId(customers, <<s, GuestWooId, g.email>>),
                      storeId |-> s, wooId |-> GuestWooId, email |-> g.email]}
               /\ task' = [task EXCEPT
                    ![r][e].todo = rest, ![r][e].pc = next,
                    ![r][e].wrote = TRUE, ![r][e].res.created = @ + 1]
          ELSE /\ task' = [task EXCEPT
                    ![r][e].todo = rest, ![r][e].pc = next,
                    ![r][e].res.errors = @ + 1]
               /\ UNCHANGED customers
  /\ UNCHANGED <<now, stores, src, srcChanges, products, orders,
                 orderItems, syncProgress, entries, req, run, client, call>>

\* the lookup of lines 941-951 left out: the link is always null
CustomerLink_never(s, email) == {NoCustomer}

\* orders-db.ts (woocommerce.ts:938-951): the account link, by contact email
CustomerLink(s, email) ==
  IF email = "" \/ FindByEmail(s, email) = {} THEN {NoCustomer}
  ELSE {c.id : c \in FindByEmail(s, email)}

\* orders-db.ts (woocommerce.ts:1027-1042): the catalog link of a line item
ProductLink(s, w) ==
  IF FindByKey(products, s, w) = {} THEN NoProduct
  ELSE (CHOOSE p \in FindByKey(products, s, w) : TRUE).id

\* the wp_postmeta and woocommerce_order_items rows of an order, which the
\* order loop reads when it reaches the order (woocommerce.ts:845-866, 989-995)
SourceOrder(s, w) == CHOOSE x \in src[s].orders : x.id = w

\* orders-db.ts (woocommerce.ts:840-1069): one iteration of the order loop.
\*   "early": a call up to the upsert raises (errors++);
\*   "late" : the line-item query or deleteMany raises after the order was
\*            upserted and counted (errors++ as well);
\*   "ok"   : the iteration reaches the item loop, where the creation of each
\*            item in `failed` raises into the inner catch (logged only).
SyncOrder(r) ==
  LET e == "orders"
      s == run[r].store
      todo == task[r][e].todo
  IN
  /\ task[r][e].pc = "rows"
  /\ \E p \in todo, outcome \in {"ok", "early", "late"} :
     LET o == SourceOrder(s, p.id) IN
     \E failed \in SUBSET o.items, cid \in CustomerLink(s, o.email) :
       /\ p.modified = Min({x.modified : x \in todo})
       /\ outcome # "ok" => failed = {}
       /\ LET n == (IF outcome = "ok" THEN 0 ELSE 1) + Cardinality(failed) IN
            faults + n <= MaxFaults /\ faults' = faults + n
       /\ LET rest == todo \ {p}
              existing == FindByKey(orders, s, o.id)
              oid == IF existing # {} THEN (CHOOSE x \in existing : TRUE).id
                     ELSE FreshId(orders, <<s, o.id>>)
              row == [id |-> oid, storeId |-> s, wooId |-> o.id,
                      customerId |-> cid, billingEmail |-> o.email]
              kept == o.items \ failed
              upserted == (orders \ existing) \cup {row}
              counted == [task EXCEPT
                    ![r][e].todo = rest, ![r][e].pc = AfterRows(e, rest),
                    ![r][e].wrote = TRUE,
                    ![r][e].res.updated = IF existing # {} THEN @ + 1 ELSE @,
                    ![r][e].res.created = IF existing # {} THEN @ ELSE @ + 1]
          IN
          IF outcome = "early" \/ ~stores[s].exists
          THEN /\ task' = [task EXCEPT
                    ![r][e].todo = rest, ![r][e].pc = AfterRows(e, rest),
                    ![r][e].res.errors = @ + 1]
               /\ UNCHANGED <<orders, orderItems>>
          ELSE IF outcome = "late"
          THEN /\ orders' = upserted
               /\ task' = [counted EXCEPT ![r][e].res.errors = @ + 1]
               /\ UNCHANGED orderItems
          ELSE /\ orders' = upserted
               /\ orderItems' =
                    LET others == {it \in orderItems : it.orderId # oid} IN
                    others \cup
                    {[id |-> FreshId(others, <<oid, i.id>>), orderId |-> oid,
                      wooId |-> i.id, productId |-> ProductLink(s, i.product)] :
                       i \in kept}
               /\ task' = [counted EXCEPT
                    ![r][e].res.orderItemsCreated = @ + Cardinality(kept)]
  /\ UNCHANGED <<now, stores, src, srcChanges, products, customers,
                 syncProgress, entries, req, run, client, call>>

\* products-db.ts:169-181 and the same lines of the other two passes: the
\* cursor of the entity is set to the current time and the pass returns; when
\* prisma.store.update raises the pass raises
\* the cursor is written back as it was read: it never advances
NextCursor_stale(r, e) == lastSync(r, e)
NextCursor(r, e) == now

\* the update sets all three cursor columns of the store row
AdvanceCursor_all(s, e, t) ==
  [stores EXCEPT ![s].lastSyncAt = [x \in Entities |-> t]]
\* prisma.store.update({ where: { id }, data: { last<Entity>SyncAt } }): the
\* one column of the pass's entity is set
AdvanceCursor(s, e, t) == [stores EXCEPT ![s].lastSyncAt[e] = t]

TaskCursor(r, e) ==
  LET s == run[r].store IN
  /\ task[r][e].pc = "cursor"
  /\ \E ok \in BOOLEAN :
       /\ Fault(ok)
       /\ IF ok /\ stores[s].exists
          THEN /\ stores' = AdvanceCursor(s, e, NextCursor(r, e))
               /\ task' = [task EXCEPT ![r][e].pc = "fulfilled",
                                       ![r][e].wrote = TRUE,
                                       ![r][e].conn = closeWooDB(@)]
          ELSE /\ task' = [task EXCEPT ![r][e].pc = "rejected",
                                       ![r][e].conn = closeWooDB(@)]
               /\ UNCHANGED stores
  /\ UNCHANGED <<now, src, srcChanges, products, customers, orders,
                 orderItems, syncProgress, entries, req, run, client, call>>

\* ---------------------------------------------------------------- join
\* Promise.all in place of Promise.allSettled: the join ends with the first
\* task that raises
Settled_failFast(r) ==
  \/ \E e \in Entities : task[r][e].pc = "rejected"
  \/ \A e \in Entities : task[r][e].pc = "fulfilled"
\* Promise.allSettled (orchestrator.ts:103, 194)
Settled(r) ==
  \A e \in Entities : task[r][e].pc \in {"fulfilled", "rejected"}

FailMsg(e) ==
  CASE e = "products" -> "Products sync failed"
    [] e = "orders" -> "Orders sync failed"
    [] e = "customers" -> "Customers sync failed"

\* orchestrator.ts:124-159, the three result records
DbResult(r) ==
  [e \in Entities |->
     IF task[r][e].pc = "fulfilled"
     THEN [count   |-> task[r][e].res.fetched + task[r][e].res.guestsFetched,
           created |-> task[r][e].res.created,
           updated |-> task[r][e].res.updated]
     ELSE run[r].result[e]]

\* orchestrator.ts:131-158, the error list, in the order of the three checks
DbErrors(r) ==
  LET failedOf(e) == IF task[r][e].pc = "rejected" THEN <<FailMsg(e)>> ELSE <<>>
  IN failedOf("products") \o failedOf("orders") \o failedOf("customers")

\* orchestrator.ts:123-161 and 282-287: the results are aggregated and
\* runUnifiedSync returns
RunJoinDb(r) ==
  /\ run[r].pc = "join" /\ run[r].method = "db"
  /\ Settled(r)
  /\ run' = [run EXCEPT ![r].pc = "returned",
                        ![r].result = DbResult(r),
                        ![r].errors = DbErrors(r)]
  /\ entries' = ProgressCallbacks(entries, run[r].store,
                    << <<90, "Database sync complete">>, <<100, "Sync complete!">> >>)
  /\ UNCHANGED <<now, stores, src, srcChanges, products, customers, orders,
                 orderItems, syncProgress, req, task, faults, client, call>>

\* ---------------------------------------------------------------- remote API
\* wooClient.getProducts/getOrders/getCustomers: the fetch of one collection
\* is fulfilled with the records of the source or rejected
ApiFetch(r, e) ==
  LET s == run[r].store IN
  /\ task[r][e].pc = "apiFetch"
  /\ \E ok \in BOOLEAN :
       /\ Fault(ok)
       /\ IF ok
          THEN task' = [task EXCEPT
                 ![r][e].pc = "fulfilled",
                 ![r][e].todo = CASE e = "products" -> src[s].products
                                  [] e = "orders" -> src[s].orders
                                  [] e = "customers" -> src[s].users]
          ELSE task' = [task EXCEPT ![r][e].pc = "rejected"]
  /\ UNCHANGED <<now, stores, src, srcChanges, products, customers, orders,
                 orderItems, syncProgress, entries, req, run, client, call>>

\* orchestrator.ts:261-287: orders and customers are counted, not stored
ApiTailResult(r, res) ==
  [res EXCEPT
     !["orders"].count = IF task[r]["orders"].pc = "fulfilled"
                         THEN Cardinality(task[r]["orders"].todo) ELSE @,
     !["customers"].count = IF task[r]["customers"].pc = "fulfilled"
                            THEN Cardinality(task[r]["customers"].todo) ELSE @]

ApiTailErrors(r) ==
  (IF task[r]["orders"].pc = "rejected" THEN <<"Orders API fetch failed">> ELSE <<>>)
  \o (IF task[r]["customers"].pc = "rejected"
      THEN <<"Customers API fetch failed">> ELSE <<>>)

ApiTailCalls(r) ==
  (IF task[r]["orders"].pc = "fulfilled" THEN << <<80, "Syncing orders...">> >> ELSE <<>>)
  \o (IF task[r]["customers"].pc = "fulfilled"
      THEN << <<90, "Syncing customers...">> >> ELSE <<>>)
  \o << <<100, "Sync complete!">> >>

\* orchestrator.ts:214-219 and 257-259: after the three fetches settled
RunJoinApi(r) ==
  LET s == run[r].store
      fetched == task[r]["products"].todo
  IN
  /\ run[r].pc = "join" /\ run[r].method = "api"
  /\ Settled(r)
  /\ IF task[r]["products"].pc = "fulfilled" /\ fetched # {}
     THEN /\ run' = [run EXCEPT ![r].pc = "apiProducts", ![r].apiTodo = fetched]
          /\ entries' = ProgressCallback(entries, s, 70, "Syncing products...")
     ELSE IF task[r]["products"].pc = "fulfilled"
     THEN /\ run' = [run EXCEPT ![r].pc = "returned",
                                ![r].result = ApiTailResult(r, @),
                                ![r].errors = ApiTailErrors(r)]
          /\ entries' = ProgressCallbacks(entries, s,
                            << <<70, "Syncing products...">> >> \o ApiTailCalls(r))
     ELSE /\ run' = [run EXCEPT ![r].pc = "returned",
                                ![r].result = ApiTailResult(r, @),
                                ![r].errors = <<"Products API fetch failed">>
                                              \o ApiTailErrors(r)]
          /\ entries' = ProgressCallbacks(entries, s, ApiTailCalls(r))
  /\ UNCHANGED <<now, stores, src, srcChanges, products, customers, orders,
                 orderItems, syncProgress, req, task, faults, client, call>>

\* orchestrator.ts:219-256: one iteration of the product loop of the API
\* branch, and after the last one the rest of runUnifiedSync
ApiProduct(r) ==
  LET s == run[r].store
      todo == run[r].apiTodo
  IN
  /\ run[r].pc = "apiProducts"
  /\ \E p \in todo, ok \in BOOLEAN :
       /\ p.id = Min({x.id : x \in todo})
       /\ Fault(ok)
       /\ LET rest == todo \ {p}
              existing == FindByKey(products, s, p.id)
              stored == ok /\ stores[s].exists
              res == IF stored
                     THEN [run[r].result EXCEPT !["products"].count = @ + 1]
                     ELSE run[r].result
              errs == IF stored THEN run[r].errors
                      ELSE Append(run[r].errors, "Product error")
          IN
          /\ IF stored /\ existing = {}
             THEN /\ products' = products \cup
                       {[id |-> FreshId(products, <<s, p.id>>),
                         storeId |-> s, wooId |-> p.id]}
             ELSE UNCHANGED products
          /\ IF rest # {}
             THEN /\ run' = [run EXCEPT ![r].apiTodo = rest, ![r].result = res,
                                        ![r].errors = errs]
                  /\ UNCHANGED entries
             ELSE /\ run' = [run EXCEPT ![r].apiTodo = rest, ![r].pc = "returned",
                                        ![r].result = ApiTailResult(r, res),
                                        ![r].errors = errs \o ApiTailErrors(r)]
                  /\ entries' = ProgressCallbacks(entries, s, ApiTailCalls(r))
  /\ UNCHANGED <<now, stores, src, srcChanges, customers, orders,
                 orderItems, syncProgress, req, task, client, call>>

\* ---------------------------------------------------------------- fetchAll
\* A response body is a sequence of tokens: the brackets and braces, the
\* comma, "k" (a quoted key with its colon), "v" (a number, true, false or
\* null), "q" (a double quote opening or closing a string value) and "b" (a
\* backslash); inside a string value any token is a character of the string.
Tokens == {"[", "]", "{", "}", ",", "k", "v", "q", "b"}

PerPage == 50    \* woocommerce.ts:238

\* String.prototype.indexOf(c, from), 0 standing for -1
IndexOf(t, c, from) ==
  IF \E i \in from..Len(t) : t[i] = c
  THEN Min({i \in from..Len(t) : t[i] = c})
  ELSE 0

\* String.prototype.replace(/ab/g, r) for the two-token pattern a b
RECURSIVE Replace2(_, _, _, _)
Replace2(t, a, b, r) ==
  LET found == {i \in 1..(Len(t) - 1) : t[i] = a /\ t[i + 1] = b} IN
  IF found = {} THEN t
  ELSE LET i == Min(found) IN
       SubSeq(t, 1, i - 1) \o <<r>> \o Replace2(SubSeq(t, i + 2, Len(t)), a, b, r)

\* woocommerce.ts:15-24: \" becomes " and then \\ becomes \ (the other
\* replacements concern characters no token stands for)
sanitizeJsonResponse(t) == Replace2(Replace2(t, "b", "q", "q"), "b", "b", "b")

\* JSON.parse, as the position after the value that starts at i, 0 when the
\* text is no JSON there
RECURSIVE ParseString(_, _), ParseObject(_, _), ParseMembers(_, _)
ParseString(t, i) ==
  IF i > Len(t) THEN 0
  ELSE IF t[i] = "q" THEN i + 1
  ELSE IF t[i] = "b" THEN (IF i + 1 > Len(t) THEN 0 ELSE ParseString(t, i + 2))
  ELSE ParseString(t, i + 1)

ParseValue(t, i) ==
  IF i > Len(t) THEN 0
  ELSE IF t[i] = "v" THEN i + 1
  ELSE IF t[i] = "q" THEN ParseString(t, i + 1)
  ELSE IF t[i] = "{" THEN ParseObject(t, i)
  ELSE 0

ParseMembers(t, i) ==
  IF i > Len(t) \/ t[i] # "k" THEN 0
  ELSE LET j == ParseValue(t, i + 1) IN
       IF j = 0 \/ j > Len(t) THEN 0
       ELSE IF t[j] = "}" THEN j + 1
       ELSE IF t[j] = "," THEN ParseMembers(t, j + 1)
       ELSE 0

ParseObject(t, i) ==
  IF i + 1 > Len(t) \/ t[i] # "{" THEN 0
  ELSE IF t[i + 1] = "}" THEN i + 2
  ELSE ParseMembers(t, i + 1)

\* JSON.parse of one object: does it return?
JsonObjectOk(t) == ParseObject(t, 1) = Len(t) + 1

\* JSON.parse of a page: [ok, data], data being the objects of the array
RECURSIVE ParseElements(_, _, _)
ParseElements(t, i, acc) ==
  LET j == ParseObject(t, i) IN
  IF j = 0 \/ j > Len(t) THEN [ok |-> FALSE, data |-> <<>>]
  ELSE IF t[j] = "]"
       THEN [ok |-> j = Len(t), data |-> Append(acc, SubSeq(t, i, j - 1))]
  ELSE IF t[j] = "," THEN ParseElements(t, j + 1, Append(acc, SubSeq(t, i, j - 1)))
  ELSE [ok |-> FALSE, data |-> <<>>]

JsonParse(t) ==
  IF Len(t) < 2 \/ t[1] # "[" THEN [ok |-> FALSE, data |-> <<>>]
  ELSE IF t[2] = "]" THEN [ok |-> Len(t) = 2, data |-> <<>>]
  ELSE ParseElements(t, 2, <<>>)

\* woocommerce.ts:56-85: the scan for the brace that closes the one at
\* startBrace; the result is <<endPos, braceCount>> as the loop leaves them
RECURSIVE MatchBrace(_, _, _, _, _, _)
MatchBrace(t, startBrace, i, braceCount, inString, escapeNext) ==
  IF i > Len(t) THEN <<startBrace, braceCount>>
  ELSE IF escapeNext THEN MatchBrace(t, startBrace, i + 1, braceCount, inString, FALSE)
  ELSE IF t[i] = "b" THEN MatchBrace(t, startBrace, i + 1, braceCount, inString, TRUE)
  ELSE IF t[i] = "q" THEN MatchBrace(t, startBrace, i + 1, braceCount, ~inString, FALSE)
  ELSE IF inString THEN MatchBrace(t, startBrace, i + 1, braceCount, inString, FALSE)
  ELSE LET n == braceCount + (IF t[i] = "{" THEN 1 ELSE 0)
                           - (IF t[i] = "}" THEN 1 ELSE 0)
       IN IF n = 0 THEN <<i, 0>>
          ELSE MatchBrace(t, startBrace, i + 1, n, inString, FALSE)

\* woocommerce.ts:46-48: whitespace and commas are skipped
RECURSIVE SkipSeparators(_, _)
SkipSeparators(t, pos) ==
  IF pos <= Len(t) /\ t[pos] = "," THEN SkipSeparators(t, pos + 1) ELSE pos

\* woocommerce.ts:44-99: the loop over the candidate objects
RECURSIVE ExtractFrom(_, _, _)
ExtractFrom(t, currentPos, jsonObjects) ==
  LET pos == SkipSeparators(t, currentPos) IN
  IF pos > Len(t) THEN jsonObjects
  ELSE LET startBrace == IndexOf(t, "{", pos) IN
       IF startBrace = 0 THEN jsonObjects
       ELSE LET m == MatchBrace(t, startBrace, startBrace, 0, FALSE, FALSE)
                endPos == m[1]
                jsonStr == SubSeq(t, startBrace, endPos)
            IN ExtractFrom(t, endPos + 1,
                           IF m[2] = 0 /\ JsonObjectOk(jsonStr)
                           THEN Append(jsonObjects, jsonStr)
                           ELSE jsonObjects)

\* woocommerce.ts:29-107
extractPartialJsonData(t) ==
  LET arrayStart == IndexOf(t, "[", 1) IN
  IF arrayStart = 0 THEN <<>> ELSE ExtractFrom(t, arrayStart + 1, <<>>)

\* woocommerce.ts:109-233: the canned fixture of a collection; each of the
\* three collections has two objects, with the ids 1 and 2
getMockData(path) ==
  IF path \in Entities THEN << <<"{", "k", "v", "}">>, <<"{", "k", "v", "}">> >>
  ELSE <<>>

\* the objects a page is built from: a flat one, one with a nested object
\* followed by a further member, one whose string value holds a brace, and one
\* whose string value holds an escaped quote
JsonObjects ==
  { <<"{", "k", "v", "}">>,
    <<"{", "k", "{", "k", "v", "}", ",", "k", "v", "}">>,
    <<"{", "k", "q", "}", "q", "}">>,
    <<"{", "k", "q", "b", "q", "q", "}">> }

\* an object cut off by the end of the body
TruncatedObjects == {SubSeq(o, 1, n) : <<o, n>> \in
                       {x \in JsonObjects \X (1..10) : x[2] < Len(x[1])}}

ObjectLists == UNION {[1..n -> JsonObjects] : n \in 0..MaxObjects}

\* the objects of a list separated by commas
RECURSIVE Join(_)
Join(l) ==
  IF Len(l) = 0 THEN <<>>
  ELSE IF Len(l) = 1 THEN l[1]
  ELSE l[1] \o <<",">> \o Join(Tail(l))

\* a page of complete objects, closed, or ending in a truncated object
Page(l, cut) ==
  IF cut = <<>> THEN <<"[">> \o Join(l) \o <<"]">>
  ELSE <<"[">> \o Join(l) \o (IF Len(l) = 0 THEN <<>> ELSE <<",">>) \o cut

\* the answer of the remote API to the request for page p: the first page is
\* the one under test, the pages after it are those of client.later, and
\* every further page is an empty array
Response(p) ==
  IF p = 1 THEN [status |-> client.status, body |-> client.body]
  ELSE IF p - 1 <= Len(client.later)
  THEN [status |-> client.later[p - 1].status, body |-> client.later[p - 1].body]
  ELSE [status |-> 200, body |-> <<"[", "]">>]

\* the loop also ends after a page that is exactly full
LastPage_orFull(n) == n <= PerPage
\* woocommerce.ts:280, 293: done = data.length < perPage
LastPage(n) == n < PerPage

\* the fixture stands in for a 404 only
UseMock_only404(status) == status = 404
\* woocommerce.ts:262: res.status === 404 || res.status === 401
UseMock(status) == status \in {404, 401}

\* woocommerce.ts:244-305: one iteration of the while loop of fetchAll
FetchPage ==
  /\ client.pc = "fetch"
  /\ LET res == Response(client.page)
         parsed == JsonParse(sanitizeJsonResponse(res.body))
         partialData == extractPartialJsonData(res.body)
         data == IF parsed.ok THEN parsed.data ELSE partialData
         done == IF parsed.ok \/ Len(partialData) > 0 THEN LastPage(Len(data))
                 ELSE TRUE
     IN
     IF res.status # 200 /\ UseMock(res.status)
     THEN client' = [client EXCEPT !.pc = "returned",
                                   !.out = getMockData(client.path),
                                   !.requested = @ + 1]
     ELSE IF res.status # 200
     THEN client' = [client EXCEPT !.pc = "raised", !.requested = @ + 1]
     ELSE client' = [client EXCEPT
                       !.out = @ \o data,
                       !.page = IF parsed.ok \/ Len(partialData) > 0 THEN @ + 1 ELSE @,
                       !.requested = @ + 1,
                       !.pc = IF done THEN "returned" ELSE "fetch"]
  /\ UNCHANGED <<now, stores, src, srcChanges, products, customers, orders,
                 orderItems, syncProgress, entries, req, run, task, faults, call>>
\* ---------------------------------------------------------------- wp-sql
\* Text is a sequence of characters.  WordChars are the characters of the
\* class [A-Za-z0-9_] that occur in the model, Alphabet the characters the
\* inputs are made of: two of them are outside the class; "bq" is the
\* backtick character.
WordChars == {"a", "0", "_", "w", "p"}
Alphabet == {"a", "0", "_", "bq", ";"}
MaxText == 3

Texts == UNION {[1..n -> Alphabet] : n \in 0..MaxText}

\* s.replace(/[^A-Za-z0-9_]/g, '')
Sanitize_off(s) == s
Sanitize(s) == SelectSeq(s, LAMBDA c : c \in WordChars)

\* wp-sql.ts (woocommerce.ts:412-433): the quoted, prefixed table name, or
\* the Error the function throws
wpTable(dbPrefix, tableName) ==
  LET rawPrefix == IF dbPrefix = <<>> THEN <<"w", "p", "_">> ELSE dbPrefix
      prefix == Sanitize(rawPrefix)
      sanitizedTableName == Sanitize(tableName)
  IN
  IF prefix = <<>> THEN [raised |-> TRUE, out |-> <<>>]
  ELSE IF sanitizedTableName = <<>> THEN [raised |-> TRUE, out |-> <<>>]
  ELSE [raised |-> FALSE,
        out |-> <<"bq">> \o prefix \o sanitizedTableName \o <<"bq">>]

\* one call of wpTable
CallWpTable ==
  /\ call.pc = "wpTable"
  /\ LET res == wpTable(call.dbPrefix, call.tableName) IN
       call' = [call EXCEPT !.pc = IF res.raised THEN "raised" ELSE "returned",
                            !.out = res.out]
  /\ UNCHANGED <<now, stores, src, srcChanges, products, customers, orders,
                 orderItems, syncProgress, entries, req, run, task, faults,
                 client>>
\* ---------------------------------------------------------------- detect-prefix
\* A table name is a sequence of pieces; the canonical suffixes posts, users
\* and options are pieces of their own, so a name ends in a suffix when its
\* last piece is one.
Suffixes == {"posts", "users", "options"}
Pieces == {"wp_", "s2_", "posts", "users", "meta", "woocommerce_order_items"}
MaxPieces == 2
MaxTables == 2

TableNames == UNION {[1..n -> Pieces] : n \in 1..MaxPieces}
\* the schemas of up to MaxTables tables
Schemas ==
  {{}} \cup {{f[i] : i \in 1..MaxTables} : f \in [1..MaxTables -> TableNames]}

DetectLimit == 10     \* LIMIT 10 of the catalog query

\* table_name LIKE '%posts' OR LIKE '%users' OR LIKE '%options'
LikeSuffix(name) == name[Len(name)] \in Suffixes

\* the answers the catalog query can give: up to DetectLimit of the matching
\* tables, in any order (the query has no ORDER BY)
RowLists(schema) ==
  LET matching == {n \in schema : LikeSuffix(n)}
      k == IF Cardinality(matching) < DetectLimit THEN Cardinality(matching)
           ELSE DetectLimit
  IN {rows \in [1..k -> matching] : \A i, j \in 1..k : i # j => rows[i] # rows[j]}

\* tableName.match(/^(.+?)(posts|users|options)$/): the match has a group 1
\* only when at least one character precedes the suffix
PrefixMatch(name) ==
  IF LikeSuffix(name) /\ Len(name) >= 2
  THEN [matched |-> TRUE, prefix |-> SubSeq(name, 1, Len(name) - 1)]
  ELSE [matched |-> FALSE, prefix |-> <<>>]

\* Array.from(prefixes): the distinct prefixes in order of first insertion
RECURSIVE DetectedPrefixes(_, _)
DetectedPrefixes(rows, acc) ==
  IF rows = <<>> THEN acc
  ELSE LET m == PrefixMatch(Head(rows))
           seen == \E i \in 1..Len(acc) : acc[i] = m.prefix
       IN DetectedPrefixes(Tail(rows),
                           IF m.matched /\ ~seen THEN Append(acc, m.prefix) ELSE acc)

\* array.slice(0, n)
Slice(s, n) == SubSeq(s, 1, IF Len(s) < n THEN Len(s) ELSE n)

DefaultPrefix == <<"wp_">>

NoResponse == [status |-> 0, success |-> FALSE, error |-> "", prefix |-> <<>>,
               hasWooCommerce |-> FALSE, tables |-> <<>>,
               alternativePrefixes |-> <<>>]

\* detect-prefix/route.ts:13-97 and 122-143: the body is read and validated,
\* the connection made and pinged and the catalog queried; any of the three
\* datastore calls may raise into the catch of line 122, and the finally of
\* line 134 ends the connection if createConnection returned one
DetectPrefixQuery ==
  /\ call.pc = "detect"
  /\ IF ~call.creds
     THEN /\ call' = [call EXCEPT !.pc = "answered",
                        !.resp = [NoResponse EXCEPT
                                    !.status = 400,
                                    !.error = "Missing required database credentials"]]
          /\ UNCHANGED faults
     ELSE \E outcome \in {"ok", "connect", "query"} :
          \E rows \in RowLists(call.schema) :
       /\ Fault(outcome = "ok")
       /\ IF outcome # "ok"
          THEN call' = [call EXCEPT !.pc = "answered", !.dbFailed = TRUE,
                          !.conn = IF outcome = "connect" THEN "none" ELSE "closed",
                          !.resp = [NoResponse EXCEPT
                                      !.status = 500,
                                      !.error = "Database connection failed"]]
          ELSE IF Len(rows) = 0
          THEN call' = [call EXCEPT !.pc = "answered", !.conn = "closed",
                          !.rows = rows,
                          !.resp = [NoResponse EXCEPT
                                      !.status = 404,
                                      !.error = "No WordPress tables found"]]
          ELSE IF Len(DetectedPrefixes(rows, <<>>)) = 0
          THEN call' = [call EXCEPT !.pc = "answered", !.conn = "closed",
                          !.rows = rows,
                          !.resp = [NoResponse EXCEPT
                                      !.status = 200, !.success = TRUE,
                                      !.prefix = DefaultPrefix,
                                      !.tables = rows]]
          ELSE call' = [call EXCEPT !.pc = "verify", !.conn = "open",
                                    !.rows = rows]
  /\ UNCHANGED <<now, stores, src, srcChanges, products, customers, orders,
                 orderItems, syncProgress, entries, req, run, task, client>>

\* detect-prefix/route.ts:99-143: the query for the order-items table under
\* the first prefix, the answer, and the end of the connection
DetectPrefixVerify ==
  /\ call.pc = "verify"
  /\ \E ok \in BOOLEAN :
       /\ Fault(ok)
       /\ LET detectedPrefixes == DetectedPrefixes(call.rows, <<>>)
              prefix == detectedPrefixes[1]
              wooTables == {n \in call.schema :
                              n = prefix \o <<"woocommerce_order_items">>}
          IN
          IF ok
          THEN call' = [call EXCEPT !.pc = "answered", !.conn = "closed",
                          !.resp = [NoResponse EXCEPT
                                      !.status = 200, !.success = TRUE,
                                      !.prefix = prefix,
                                      !.hasWooCommerce = (wooTables # {}),
                                      !.tables = Slice(call.rows, 5),
                                      !.alternativePrefixes = Tail(detectedPrefixes)]]
          ELSE call' = [call EXCEPT !.pc = "answered", !.conn = "closed",
                          !.dbFailed = TRUE,
                          !.resp = [NoResponse EXCEPT
                                      !.status = 500,
                                      !.error = "Database connection failed"]]
  /\ UNCHANGED <<now, stores, src, srcChanges, products, customers, orders,
                 orderItems, syncProgress, entries, req, run, task, client>>
\* ---------------------------------------------------------------- run end
ItemsOf(s) == {it \in orderItems : \E o \in RowsOf(orders, s) : o.id = it.orderId}

RowCounts(s) ==
  [products   |-> Cardinality(RowsOf(products, s)),
   customers  |-> Cardinality(RowsOf(customers, s)),
   orders     |-> Cardinality(RowsOf(orders, s)),
   orderItems |-> Cardinality(ItemsOf(s))]

\* the assignment of line 182 left out: a returned run leaves its entry running
FinalStatus_unset(r) == "running"
\* a run whose passes counted record errors ends in status error
FinalStatus_strict(r) ==
  IF \E e \in Entities : task[r][e].res.errors > 0 THEN "error" ELSE "completed"
\* background/route.ts:179-184: the status a returned run leaves
FinalStatus(r) == "completed"

\* background/route.ts:179-195: performBackgroundSync after runUnifiedSync
\* returned (the entry object captured at line 167 is completed and put back)
\* or raised (the entry the map holds now is marked error)
RunFinish(r) ==
  LET s == run[r].store
      cur == syncProgress[s]
  IN
  /\ run[r].pc \in {"returned", "threw"}
  /\ IF run[r].pc = "returned"
     THEN /\ entries' = [entries EXCEPT ![r].progress = 100,
                                        ![r].message = "Sync complete! ...",
                                        ![r].status = FinalStatus(r),
                                        ![r].endTime = now]
          /\ syncProgress' = [syncProgress EXCEPT ![s] = r]
     ELSE /\ entries' = IF cur = NoEntry THEN entries
                        ELSE [entries EXCEPT ![cur].status = "error",
                                             ![cur].error = run[r].thrown,
                                             ![cur].endTime = now]
          /\ UNCHANGED syncProgress
  /\ run' = [run EXCEPT ![r].pc = "done", ![r].srcAtEnd = srcChanges[s],
                        ![r].rowsAtEnd = RowCounts(s)]
  /\ UNCHANGED <<now, stores, src, srcChanges, products, customers, orders,
                 orderItems, req, task, faults, client, call>>

\* ---------------------------------------------------------------- environment
\* stores/[id]/route.ts:220-255: the store row is deleted; the foreign keys
\* of the migrations cascade to products, customers, orders and order_items
DeleteStore(s) ==
  /\ stores[s].exists
  /\ stores' = [stores EXCEPT ![s].exists = FALSE]
  /\ products' = products \ RowsOf(products, s)
  /\ customers' = customers \ RowsOf(customers, s)
  /\ orders' = orders \ RowsOf(orders, s)
  /\ orderItems' = orderItems \ ItemsOf(s)
  /\ UNCHANGED <<now, src, srcChanges, syncProgress, entries, req,
                 run, task, faults, client, call>>

\* time passes and the shop edits an order of the source: its last line item
\* is removed and post_modified_gmt becomes the current time
SourceEditOrder(s) ==
  /\ srcChanges[s] < MaxSrcChanges
  /\ now' = now + 1
  /\ \E o \in src[s].orders :
     \E i \in {x \in o.items : \A y \in o.items : y.id <= x.id} :
       src' = [src EXCEPT ![s].orders =
                 (@ \ {o}) \cup {[o EXCEPT !.items = @ \ {i}, !.modified = now + 1]}]
  /\ srcChanges' = [srcChanges EXCEPT ![s] = @ + 1]
  /\ UNCHANGED <<stores, products, customers, orders, orderItems,
                 syncProgress, entries, req, run, task, faults, client, call>>

\* ---------------------------------------------------------------- Next
\* the engine over both stores (their sources hold catalog items only, so the
\* order, user and guest loops have nothing to iterate over)
Next ==
  \/ \E s \in Stores : PostLookup(s)
  \/ \E q \in Requests : POST(q)
  \/ \E r \in Requests : RunLoadStore(r)
  \/ \E r \in Requests, e \in Entities : TaskFetch(r, e)
  \/ \E r \in Requests : SyncProduct(r)
  \/ \E r \in Requests : TaskGuestQuery(r)
  \/ \E r \in Requests, e \in Entities : TaskCursor(r, e)
  \/ \E r \in Requests : RunJoinDb(r)
  \/ \E r \in Requests, e \in Entities : ApiFetch(r, e)
  \/ \E r \in Requests : RunJoinApi(r)
  \/ \E r \in Requests : ApiProduct(r)
  \/ \E r \in Requests : RunFinish(r)
  \/ \E s \in Stores : DeleteStore(s)

Spec == Init /\ [][Next]_vars

\* one continuation of background run r: the code between two awaits of
\* performBackgroundSync, runUnifiedSync and the passes it started
RunStep(r) ==
  \/ RunLoadStore(r)
  \/ \E e \in Entities : TaskFetch(r, e)
  \/ SyncProduct(r)
  \/ TaskGuestQuery(r)
  \/ \E e \in Entities : TaskCursor(r, e)
  \/ RunJoinDb(r)
  \/ \E e \in Entities : ApiFetch(r, e)
  \/ RunJoinApi(r)
  \/ ApiProduct(r)
  \/ RunFinish(r)

\* every transport and storage call of a run returns or fails, and the event
\* loop then resumes the continuation that awaits it
SpecLive == Init /\ [][Next]_vars /\ \A r \in Requests : WF_vars(RunStep(r))

\* the engine over the direct-datastore store s1 and its guest orders
NextRecon ==
  \/ \E s \in ReconStores : PostLookup(s)
  \/ \E q \in Requests : POST(q)
  \/ \E r \in Requests : RunLoadStore(r)
  \/ \E r \in Requests, e \in Entities : TaskFetch(r, e)
  \/ \E r \in Requests : SyncProduct(r)
  \/ \E r \in Requests : SyncOrder(r)
  \/ \E r \in Requests : SyncUser(r)
  \/ \E r \in Requests : TaskGuestQuery(r)
  \/ \E r \in Requests : SyncGuest(r)
  \/ \E r \in Requests, e \in Entities : TaskCursor(r, e)
  \/ \E r \in Requests : RunJoinDb(r)
  \/ \E r \in Requests : RunFinish(r)

SpecRecon == InitRecon /\ [][NextRecon]_vars

\* the same while the shop edits orders of the source
NextEdit ==
  \/ NextRecon
  \/ \E s \in ReconStores : SourceEditOrder(s)

SpecEdit == InitRecon /\ [][NextEdit]_vars

\* both transport modes: s1 syncs the guest orders over the direct datastore,
\* s2 syncs one catalog item over the remote API
InitBoth ==
  /\ InitEngine
  /\ stores = [s \in Stores |-> IF s = "s1" THEN StoreRow(TRUE, "db", TRUE)
                                ELSE StoreRow(TRUE, "api", FALSE)]
  /\ src = [s \in Stores |-> IF s = "s1" THEN GuestSource ELSE ProductSource]

NextBoth ==
  \/ \E s \in Stores : PostLookup(s)
  \/ \E q \in Requests : POST(q)
  \/ \E r \in Requests : RunLoadStore(r)
  \/ \E r \in Requests, e \in Entities : TaskFetch(r, e)
  \/ \E r \in Requests : SyncProduct(r)
  \/ \E r \in Requests : SyncOrder(r)
  \/ \E r \in Requests : SyncUser(r)
  \/ \E r \in Requests : TaskGuestQuery(r)
  \/ \E r \in Requests : SyncGuest(r)
  \/ \E r \in Requests, e \in Entities : TaskCursor(r, e)
  \/ \E r \in Requests : RunJoinDb(r)
  \/ \E r \in Requests, e \in Entities : ApiFetch(r, e)
  \/ \E r \in Requests : RunJoinApi(r)
  \/ \E r \in Requests : ApiProduct(r)
  \/ \E r \in Requests : RunFinish(r)

SpecBoth == InitBoth /\ [][NextBoth]_vars

\* the direct-datastore engine over s1 when the only order of the source
\* belongs to a registered account (the guest query yields no row)
InitLink ==
  /\ InitEngine
  /\ stores = [s \in Stores |-> IF s \in ReconStores THEN StoreRow(TRUE, "db", TRUE)
                                ELSE StoreRow(FALSE, "api", FALSE)]
  /\ src = [s \in Stores |-> IF s \in ReconStores THEN LinkSource ELSE EmptySource]

NextLink ==
  \/ \E s \in ReconStores : PostLookup(s)
  \/ \E q \in Requests : POST(q)
  \/ \E r \in Requests : RunLoadStore(r)
  \/ \E r \in Requests, e \in Entities : TaskFetch(r, e)
  \/ \E r \in Requests : SyncProduct(r)
  \/ \E r \in Requests : SyncOrder(r)
  \/ \E r \in Requests : SyncUser(r)
  \/ \E r \in Requests : TaskGuestQuery(r)
  \/ \E r \in Requests, e \in Entities : TaskCursor(r, e)
  \/ \E r \in Requests : RunJoinDb(r)
  \/ \E r \in Requests : RunFinish(r)

SpecLink == InitLink /\ [][NextLink]_vars

\* the direct-datastore engine over s1 when the billing email of an order is
\* not the email of the account that placed it
InitOwner ==
  /\ InitEngine
  /\ stores = [s \in Stores |-> IF s \in ReconStores THEN StoreRow(TRUE, "db", TRUE)
                                ELSE StoreRow(FALSE, "api", FALSE)]
  /\ src = [s \in Stores |-> IF s \in ReconStores THEN OwnerSource ELSE EmptySource]

SpecOwner == InitOwner /\ [][NextRecon]_vars

\* two direct-datastore connections whose sources hold records with the same
\* remote ids and the same contact email
InitTwo ==
  /\ InitEngine
  /\ stores = [s \in Stores |-> StoreRow(TRUE, "db", TRUE)]
  /\ src = [s \in Stores |-> LinkSource]

NextTwo ==
  \/ \E s \in Stores : PostLookup(s)
  \/ \E q \in Requests : POST(q)
  \/ \E r \in Requests : RunLoadStore(r)
  \/ \E r \in Requests, e \in Entities : TaskFetch(r, e)
  \/ \E r \in Requests : SyncProduct(r)
  \/ \E r \in Requests : SyncOrder(r)
  \/ \E r \in Requests : SyncUser(r)
  \/ \E r \in Requests : TaskGuestQuery(r)
  \/ \E r \in Requests, e \in Entities : TaskCursor(r, e)
  \/ \E r \in Requests : RunJoinDb(r)
  \/ \E r \in Requests : RunFinish(r)

SpecTwo == InitTwo /\ [][NextTwo]_vars

\* the remote-API mode over a source with orders and accounts: s1 is the only
\* store and syncs the guest orders over the remote API
InitApi ==
  /\ InitEngine
  /\ stores = [s \in Stores |-> IF s \in ReconStores THEN StoreRow(TRUE, "api", FALSE)
                                ELSE StoreRow(FALSE, "api", FALSE)]
  /\ src = [s \in Stores |-> IF s \in ReconStores THEN GuestSource ELSE EmptySource]

NextApi ==
  \/ \E s \in ReconStores : PostLookup(s)
  \/ \E q \in Requests : POST(q)
  \/ \E r \in Requests : RunLoadStore(r)
  \/ \E r \in Requests, e \in Entities : ApiFetch(r, e)
  \/ \E r \in Requests : RunJoinApi(r)
  \/ \E r \in Requests : ApiProduct(r)
  \/ \E r \in Requests : RunFinish(r)

SpecApi == InitApi /\ [][NextApi]_vars

\* the remote-API engine over s1 while a client polls the status of s1 and of
\* the store s2 that does not exist
NextPoll ==
  \/ NextApi
  \/ \E s \in Stores : Poll(s)

SpecPoll == InitApi /\ [][NextPoll]_vars

\* ---------------------------------------------------------------- foreground sync
\* sync/route.ts:8-91: POST /api/sync of an authenticated caller for store s
\* up to its second await.  The store is looked up; when it exists the
\* credentials are decrypted, the client is built and the three collections
\* are requested.  The tracker is neither read nor written.
SyncPOST(s) ==
  /\ call.pc = "idle"
  /\ call' = IF stores[s].exists
             THEN [pc |-> "fetch", store |-> s, status |-> 0,
                   todo |-> EmptySource, count |-> [e \in Entities |-> 0]]
             ELSE [pc |-> "answered", store |-> s, status |-> 404,
                   todo |-> EmptySource, count |-> [e \in Entities |-> 0]]
  /\ UNCHANGED <<now, stores, src, srcChanges, products, customers, orders,
                 orderItems, syncProgress, entries, req, run, task, faults,
                 client>>

\* the loop the foreground sync is in when `todo` is what remains to write
SyncStage(todo) ==
  IF todo.orders # {} THEN "orders"
  ELSE IF todo.products # {} THEN "products"
  ELSE IF todo.users # {} THEN "customers"
  ELSE "answered"

\* sync/route.ts:87-93 and 398-411: Promise.all of the three fetches settles;
\* when one of them raises the request is answered 500
SyncFetched ==
  /\ call.pc = "fetch"
  /\ \E ok \in BOOLEAN :
       /\ Fault(ok)
       /\ call' = IF ok
                  THEN [call EXCEPT !.todo = src[call.store],
                                    !.pc = SyncStage(src[call.store]),
                                    !.status = IF SyncStage(src[call.store]) = "answered"
                                               THEN 200 ELSE 0]
                  ELSE [call EXCEPT !.pc = "answered", !.status = 500]
  /\ UNCHANGED <<now, stores, src, srcChanges, products, customers, orders,
                 orderItems, syncProgress, entries, req, run, task>>
  /\ UNCHANGED client

\* sync/route.ts:99-108: the account link, by the remote id of the customer
CustomerById(s, w) ==
  IF w = 0 \/ FindByKey(customers, s, w) = {} THEN NoCustomer
  ELSE (CHOOSE c \in FindByKey(customers, s, w) : TRUE).id

\* what remains after the record x of the collection k was handled, and the
\* answer when nothing remains
SyncAdvance(k, x, counted) ==
  LET rest == [call.todo EXCEPT ![k] = @ \ {x}]
      e == IF k = "users" THEN "customers" ELSE k
  IN [call EXCEPT !.todo = rest,
                  !.pc = SyncStage(rest),
                  !.status = IF SyncStage(rest) = "answered" THEN 200 ELSE 0,
                  !.count[e] = IF counted THEN @ + 1 ELSE @]

\* sync/route.ts:96-317: one iteration of the order loop: the order is
\* upserted with its account link and its line items are upserted; a failure
\* is caught and the order is not counted
SyncPostOrder ==
  LET s == call.store IN
  /\ call.pc = "orders"
  /\ \E o \in call.todo.orders, ok \in BOOLEAN :
       /\ o.id = Min({x.id : x \in call.todo.orders})
       /\ Fault(ok)
       /\ LET existing == FindByKey(orders, s, o.id)
              oid == IF existing # {} THEN (CHOOSE x \in existing : TRUE).id
                     ELSE FreshId(orders, <<s, o.id>>)
              row == [id |-> oid, storeId |-> s, wooId |-> o.id,
                      customerId |-> CustomerById(s, o.customer),
                      billingEmail |-> o.email]
              kept == {it \in orderItems :
                         it.orderId # oid \/ it.wooId \notin {i.id : i \in o.items}}
              stored == ok /\ stores[s].exists
          IN
          /\ orders' = IF stored THEN (orders \ existing) \cup {row} ELSE orders
          /\ orderItems' =
               IF stored
               THEN kept \cup
                    {[id |-> IF \E it \in orderItems : it.orderId = oid /\ it.wooId = i.id
                             THEN (CHOOSE it \in orderItems :
                                     it.orderId = oid /\ it.wooId = i.id).id
                             ELSE FreshId({it \in orderItems : it.orderId = oid},
                                          <<oid, i.id>>),
                      orderId |-> oid, wooId |-> i.id,
                      productId |-> ProductLink(s, i.product)] : i \in o.items}
               ELSE orderItems
          /\ call' = SyncAdvance("orders", o, stored)
  /\ UNCHANGED <<now, stores, src, srcChanges, products, customers,
                 syncProgress, entries, req, run, task, client>>

\* sync/route.ts:319-350: one iteration of the product loop
SyncPostProduct ==
  LET s == call.store IN
  /\ call.pc = "products"
  /\ \E p \in call.todo.products, ok \in BOOLEAN :
       /\ p.id = Min({x.id : x \in call.todo.products})
       /\ Fault(ok)
       /\ LET stored == ok /\ stores[s].exists IN
          /\ products' = IF stored /\ FindByKey(products, s, p.id) = {}
                         THEN products \cup {[id |-> FreshId(products, <<s, p.id>>),
                                              storeId |-> s, wooId |-> p.id]}
                         ELSE products
          /\ call' = SyncAdvance("products", p, stored)
  /\ UNCHANGED <<now, stores, src, srcChanges, customers, orders, orderItems,
                 syncProgress, entries, req, run, task, client>>

\* sync/route.ts:352-385: one iteration of the customer loop
SyncPostCustomer ==
  LET s == call.store IN
  /\ call.pc = "customers"
  /\ \E u \in call.todo.users, ok \in BOOLEAN :
       /\ u.id = Min({x.id : x \in call.todo.users})
       /\ Fault(ok)
       /\ LET stored == ok /\ stores[s].exists
              existing == FindByKey(customers, s, u.id)
          IN
          /\ customers' =
               IF ~stored THEN customers
               ELSE IF existing # {}
               THEN (customers \ existing) \cup
                    {[c EXCEPT !.email = u.email] : c \in existing}
               ELSE customers \cup
                    {[id |-> FreshId(customers, <<s, u.id, u.email>>),
                      storeId |-> s, wooId |-> u.id, email |-> u.email]}
          /\ call' = SyncAdvance("users", u, stored)
  /\ UNCHANGED <<now, stores, src, srcChanges, products, orders, orderItems,
                 syncProgress, entries, req, run, task, client>>

\* both entry points over s1, a remote-API store: start requests of the
\* background sync and one request of the foreground sync
NextEntry ==
  \/ NextApi
  \/ \E s \in ReconStores : SyncPOST(s)
  \/ SyncFetched
  \/ SyncPostOrder
  \/ SyncPostProduct
  \/ SyncPostCustomer

SpecEntry == InitApi /\ [][NextEntry]_vars
\* fetchAll is called for a collection whose first page is any page of at most
\* MaxObjects objects, complete or cut off, answered with 200, 404 or 500
InitFetch ==
  /\ InitCommon
  /\ stores = [s \in Stores |-> StoreRow(TRUE, "api", FALSE)]
  /\ src = [s \in Stores |-> EmptySource]
  /\ call = NoCall
  /\ \E l \in ObjectLists, cut \in TruncatedObjects \cup {<<>>},
        st \in {200, 404, 500} :
       client = [IdleClient EXCEPT !.pc = "fetch", !.status = st,
                                   !.body = Page(l, cut), !.complete = l,
                                   !.truncated = (cut # <<>>)]

\* a full page: PerPage flat objects, and the body that holds them
FullList == [i \in 1..PerPage |-> <<"{", "k", "v", "}">>]

FullBody ==
  [i \in 1..(5 * PerPage + 1) |->
     IF i = 1 THEN "["
     ELSE IF i = 5 * PerPage + 1 THEN "]"
     ELSE CASE (i - 2) % 5 = 0 -> "{"
            [] (i - 2) % 5 = 1 -> "k"
            [] (i - 2) % 5 = 2 -> "v"
            [] (i - 2) % 5 = 3 -> "}"
            [] OTHER -> ","]

\* the answers the remote API gives to one page request: a well-formed page
\* that is full, empty or holds one object, or a 404 or 500
PageAnswers ==
  {[status |-> 200, body |-> Page(l, <<>>), complete |-> l] :
     l \in {x \in ObjectLists : Len(x) <= 1}}
  \cup {[status |-> 200, body |-> FullBody, complete |-> FullList]}
  \cup {[status |-> st, body |-> <<>>, complete |-> <<>>] : st \in {404, 500}}

MaxPages == 3

\* fetchAll is called for a collection of up to MaxPages pages
InitPages ==
  /\ InitCommon
  /\ stores = [s \in Stores |-> StoreRow(TRUE, "api", FALSE)]
  /\ src = [s \in Stores |-> EmptySource]
  /\ call = NoCall
  /\ \E first \in PageAnswers, later \in [1..(MaxPages - 1) -> PageAnswers] :
       client = [IdleClient EXCEPT !.pc = "fetch", !.status = first.status,
                                   !.body = first.body, !.complete = first.complete,
                                   !.later = later]

\* the event loop resumes fetchAll whenever the page request is answered
SpecPages == InitPages /\ [][FetchPage]_vars /\ WF_vars(FetchPage)

\* ---------------------------------------------------------------- remote API over fetchAll
\* the records the objects fetchAll returned stand for: the i-th object of a
\* collection is its record with the id i
RecordsOf(path, out) ==
  CASE path = "products" -> {[id |-> i, modified |-> 0] : i \in 1..Len(out)}
    [] path = "orders" -> {SrcOrder(i, 0, "e1", "a", {}) : i \in 1..Len(out)}
    [] path = "customers" ->
         {[id |-> i, email |-> "e1", registered |-> 0] : i \in 1..Len(out)}

\* the page requests of the collection client.path are answered while a run
\* waits for that collection
FetchPageFor ==
  /\ \E r \in Requests : task[r][client.path].pc = "apiFetch"
  /\ FetchPage

\* orchestrator.ts:194-213: wooClient.getProducts/getOrders/getCustomers of
\* the collection client.path settles as its fetchAll call ended; the client
\* is then ready for the next call
ApiFetchAll(r, e) ==
  /\ task[r][e].pc = "apiFetch"
  /\ e = client.path
  /\ client.pc \in {"returned", "raised"}
  /\ IF client.pc = "returned"
     THEN task' = [task EXCEPT ![r][e].pc = "fulfilled",
                               ![r][e].todo = RecordsOf(e, client.out)]
     ELSE task' = [task EXCEPT ![r][e].pc = "rejected"]
  /\ client' = [client EXCEPT !.pc = "fetch", !.page = 1, !.out = <<>>,
                              !.requested = 0]
  /\ UNCHANGED <<now, stores, src, srcChanges, products, customers, orders,
                 orderItems, syncProgress, entries, req, run, faults, call>>

\* the fetch of a collection other than client.path
ApiFetchOther(r, e) ==
  /\ e # client.path
  /\ ApiFetch(r, e)

\* a page request that is not answered with a page
FailAnswers == {[status |-> st, body |-> <<>>, complete |-> <<>>] : st \in {404, 401, 500}}

\* the first page of the collection is empty, holds one object or is full, or
\* the request fails
FirstAnswers ==
  {[status |-> 200, body |-> Page(l, <<>>), complete |-> l] :
     l \in {<<>>, << <<"{", "k", "v", "}">> >>}}
  \cup {[status |-> 200, body |-> FullBody, complete |-> FullList]}
  \cup FailAnswers

\* s1 syncs over the remote API; the pages of one of its three collections
\* are answered as first and second say, the other two collections are those
\* of GuestSource
InitMock ==
  /\ InitCommon
  /\ call = NoCall
  /\ stores = [s \in Stores |-> IF s \in ReconStores THEN StoreRow(TRUE, "api", FALSE)
                                ELSE StoreRow(FALSE, "api", FALSE)]
  /\ src = [s \in Stores |-> IF s \in ReconStores THEN GuestSource ELSE EmptySource]
  /\ \E first \in FirstAnswers, second \in FailAnswers, path \in Entities :
       client = [IdleClient EXCEPT !.pc = "fetch", !.status = first.status,
                                   !.body = first.body, !.complete = first.complete,
                                   !.later = <<second>>, !.path = path]

NextMock ==
  \/ \E s \in ReconStores : PostLookup(s)
  \/ \E q \in Requests : POST(q)
  \/ \E r \in Requests : RunLoadStore(r)
  \/ FetchPageFor
  \/ \E r \in Requests, e \in Entities : ApiFetchAll(r, e)
  \/ \E r \in Requests, e \in Entities : ApiFetchOther(r, e)
  \/ \E r \in Requests : RunJoinApi(r)
  \/ \E r \in Requests : ApiProduct(r)
  \/ \E r \in Requests : RunFinish(r)

SpecMock == InitMock /\ [][NextMock]_vars
\* one call of fetchAll
NextFetch == FetchPage

SpecFetch == InitFetch /\ [][NextFetch]_vars

\* wpTable called with any prefix and any table name
InitTable ==
  /\ InitCommon
  /\ client = IdleClient
  /\ stores = [s \in Stores |-> StoreRow(TRUE, "db", TRUE)]
  /\ src = [s \in Stores |-> EmptySource]
  /\ \E p \in Texts, t \in Texts :
       call = [pc |-> "wpTable", dbPrefix |-> p, tableName |-> t, out |-> <<>>]

NextTable == CallWpTable

SpecTable == InitTable /\ [][NextTable]_vars
\* prefix discovery called, with or without an authenticated session, with
\* complete or incomplete credentials, on any schema of up to MaxTables tables
InitDetect ==
  /\ InitCommon
  /\ client = IdleClient
  /\ stores = [s \in Stores |-> StoreRow(TRUE, "db", TRUE)]
  /\ src = [s \in Stores |-> EmptySource]
  /\ \E session \in BOOLEAN, creds \in BOOLEAN, schema \in Schemas :
       call = [pc |-> "detect", session |-> session, creds |-> creds,
               schema |-> schema, rows |-> <<>>, conn |-> "none",
               dbFailed |-> FALSE, resp |-> NoResponse]

NextDetect ==
  \/ DetectPrefixQuery
  \/ DetectPrefixVerify

SpecDetect == InitDetect /\ [][NextDetect]_vars
\* ================================================================ claims
\* a run is active from the start request that launched it until
\* performBackgroundSync has finished
Active(r) == run[r].pc \notin {"idle", "done"}

ActiveRuns(s) == {r \in Requests : Active(r) /\ run[r].store = s}

\* C1: for every interleaving of start requests for one connection at most
\* one background run of that connection is active at any time, and a start
\* request that finds the tracker entry of the connection in status running
\* launches no run, leaves the map and the entry unchanged and answers
\* "Sync already running".
C1_NoDoubleStart ==
  /\ [](\A s \in Stores : Cardinality(ActiveRuns(s)) <= 1)
  /\ [][\A q \in Requests :
          (/\ req[q].pc = "found"
           /\ req'[q].pc = "answered"
           /\ syncProgress[req[q].store] # NoEntry
           /\ entries[syncProgress[req[q].store]].status = "running")
          => /\ req'[q].response = "Sync already running"
             /\ UNCHANGED <<syncProgress, entries, run, task>>]_vars

\* a second start request was answered while the run of the first is active
C1_Witness ==
  \E q \in Requests, r \in Requests :
    /\ q # r
    /\ Active(r) /\ run[r].store = req[q].store
    /\ req[q].response = "Sync already running"
    /\ req[r].response = "Background sync started"

\* runUnifiedSync of run r has returned its SyncResult
Returned(r) == run[r].pc \in {"returned", "done"}

\* C2: if one reconciliation task of a direct-datastore run raises (the
\* transactions task, or either of the other two), the other tasks of the run
\* still run to their end, the fetched/created/updated counts of every task
\* that returned are in the SyncResult runUnifiedSync returns, and the failure
\* of the task that raised is in the error list of the result.
C2_PartialFailureIsolation ==
  \A r \in Requests :
    (Returned(r) /\ run[r].method = "db") =>
      \A e \in Entities :
        /\ task[r][e].pc \in {"fulfilled", "rejected"}
        /\ task[r][e].pc = "fulfilled" =>
             /\ run[r].result[e].count =
                  task[r][e].res.fetched + task[r][e].res.guestsFetched
             /\ run[r].result[e].created = task[r][e].res.created
             /\ run[r].result[e].updated = task[r][e].res.updated
        /\ task[r][e].pc = "rejected" =>
             \E i \in DOMAIN run[r].errors : run[r].errors[i] = FailMsg(e)
        /\ task[r][e].pc = "fulfilled" =>
             \A i \in DOMAIN run[r].errors : run[r].errors[i] # FailMsg(e)

\* the transactions task raised, the catalog and accounts tasks created rows
\* and the run returned both
C2_Witness ==
  \E r \in Requests :
    /\ Returned(r)
    /\ task[r]["orders"].pc = "rejected"
    /\ run[r].errors = <<"Orders sync failed">>
    /\ task[r]["products"].pc = "fulfilled" /\ run[r].result["products"].created = 1
    /\ task[r]["customers"].pc = "fulfilled" /\ run[r].result["customers"].created = 2

\* performBackgroundSync of run r has finished
Done(r) == run[r].pc = "done"

\* C3: whenever, after a run has started, one whole entity task fails or a
\* top-level failure occurs, polling the status of the connection after the
\* run reports status error, not completed.
C3_FailureReportsError ==
  \A r \in Requests :
    (/\ Done(r)
     /\ syncProgress[run[r].store] = r
     /\ \/ run[r].thrown # ""
        \/ \E e \in Entities : task[r][e].pc = "rejected")
    => GET(run[r].store).status = "error"

\* every entity task of run r returned
AllFulfilled(r) == \A e \in Entities : task[r][e].pc = "fulfilled"

\* C4: a run in which every entity task returns but some records failed to
\* upsert (nonzero per-record error counts) ends with the tracker entry in
\* status completed with progress 100, never in status error.
C4_RecordErrorsStillCompleted ==
  \A r \in Requests :
    (/\ Done(r)
     /\ AllFulfilled(r)
     /\ \E e \in Entities : task[r][e].res.errors > 0)
    => /\ entries[r].status = "completed"
       /\ entries[r].progress = 100
       /\ syncProgress[run[r].store] = r => GET(run[r].store).status = "completed"

\* a finished run whose catalog pass returned with one record error
C4_Witness ==
  \E r \in Requests :
    /\ Done(r)
    /\ AllFulfilled(r)
    /\ task[r]["products"].res.errors = 1
    /\ task[r]["products"].res.fetched = 1
    /\ GET(run[r].store).status = "completed"

\* C5: when the connection does not exist or, in direct-datastore mode, one
\* of host, user, password and database name is missing, runUnifiedSync raises
\* before any of the three reconciliation tasks is launched: the run writes no
\* local row and no cursor, and its tracker entry ends in status error.
C5_ConfigurationErrorBeforeFanOut ==
  \A r \in Requests :
    (run[r].pc \in {"join", "apiProducts", "returned", "threw", "done"}
     /\ ~run[r].configOk)
    => /\ run[r].pc \in {"threw", "done"}
       /\ run[r].thrown \in {"Store not found", "Database credentials are incomplete"}
       /\ \A e \in Entities : task[r][e].pc = "idle" /\ ~task[r][e].wrote
       /\ Done(r) => /\ entries[r].status = "error"
                     /\ entries[r].error = run[r].thrown

\* one finished run found its store deleted, another found the credentials
\* of its direct-datastore store incomplete
C5_Witness ==
  \E r1 \in Requests, r2 \in Requests :
    /\ Done(r1) /\ run[r1].thrown = "Store not found"
    /\ Done(r2) /\ run[r2].thrown = "Database credentials are incomplete"
    /\ entries[r1].status = "error" /\ entries[r2].status = "error"

\* run r2 started after run r1 of the same store had finished, and the source
\* of the store was not modified from the start of r1 to the end of r2
SecondRun(r1, r2) ==
  /\ Done(r1) /\ Done(r2)
  /\ r1 \in run[r2].after
  /\ run[r1].srcAtStart = run[r2].srcAtEnd

KeysUnique(table) ==
  \A a \in table, b \in table :
    (a.storeId = b.storeId /\ a.wooId = b.wooId) => a = b

\* C7: in every state reachable by any sequence and interleaving of sync runs
\* (either transport mode, guest accounts with the sentinel remote id 0
\* included) no two local rows of the same entity type share the same
\* (connectionId, remoteId) pair.
C7_NaturalKeyUnique ==
  /\ KeysUnique(products)
  /\ KeysUnique(customers)
  /\ KeysUnique(orders)

\* both stores hold the catalog item 1, and s1 holds its three orders, the
\* registered account and a guest account with remote id 0, after a run whose
\* guest loop met a second guest email
C7_Witness ==
  /\ \A s \in Stores : FindByKey(products, s, 1) # {}
  /\ FindByKey(customers, "s1", GuestWooId) # {}
  /\ FindByKey(customers, "s1", 5) # {}
  /\ Cardinality(RowsOf(orders, "s1")) = 3
  /\ \E r \in Requests : Done(r) /\ task[r]["customers"].res.errors > 0
                                 /\ task[r]["customers"].res.created = 2

\* C8: after a transaction has been reconciled without being counted as an
\* error, the local LineItems owned by the local Transaction are exactly the
\* line items the source reported for it in that pass: each one once, and none
\* left over from an earlier pass.
C8_LineItemsMatchSource ==
  [][\A r \in Requests :
       (/\ task[r]["orders"].pc = "rows"
        /\ task'[r]["orders"].todo # task[r]["orders"].todo
        /\ task'[r]["orders"].res.errors = task[r]["orders"].res.errors)
       => \A p \in task[r]["orders"].todo \ task'[r]["orders"].todo :
            LET s == run[r].store
                rows == {x \in orders' : x.storeId = s /\ x.wooId = p.id}
                items == {it \in orderItems' : \E x \in rows : it.orderId = x.id}
                reported == {i.id : i \in SourceOrder(s, p.id).items}
            IN /\ rows # {}
               /\ {it.wooId : it \in items} = reported
               /\ Cardinality(items) = Cardinality(reported)]_vars

\* the contact emails of the rows the guest discovery query of run r yields
GuestEmails(r) == {g.email : g \in GuestRows(r)}

\* the local accounts of store s with the email m
AccountsOf(s, m) == {c \in customers : c.storeId = s /\ c.email = m}

\* the accounts pass of run r returned, and no call failed so far
AccountsPassReturned(r) == task[r]["customers"].pc = "fulfilled" /\ faults = 0

\* C9: when two or more source transactions carry the same contact email and
\* no registered source account has it, the accounts pass leaves exactly one
\* local guest Account with that email for the connection, however many rows
\* the guest discovery query yields for the email and however often the pass
\* is repeated (stated for the behaviours in which no call fails).
C9_SharedEmailOneGuest ==
  \A r \in Requests :
    AccountsPassReturned(r) =>
      \A m \in GuestEmails(r) :
        Cardinality({o \in src[run[r].store].orders : o.email = m}) >= 2
        => Cardinality({c \in AccountsOf(run[r].store, m) :
                          c.wooId = GuestWooId}) = 1

\* C10: after an accounts pass that returns, for every distinct contact email
\* of a fetched transaction that belongs to no registered source account
\* there is exactly one local Account of the connection with that email, and
\* it carries the sentinel remote id 0, also when the connection has two or
\* more distinct guest emails (stated for the behaviours in which no call
\* fails).
C10_EveryGuestEmailOneAccount ==
  \A r \in Requests :
    AccountsPassReturned(r) =>
      \A m \in GuestEmails(r) :
        /\ Cardinality(AccountsOf(run[r].store, m)) = 1
        /\ \A c \in AccountsOf(run[r].store, m) : c.wooId = GuestWooId

\* C11: for a remote-API page whose body is an array of N syntactically
\* complete objects (N >= 0, N below the page size) followed by one truncated
\* object, fetchAll adds exactly those N objects to its result, requests no
\* further page and returns without raising; with N = 0 the page is treated
\* as the last page.
C11_TruncatedPageYieldsCompleteObjects ==
  (client.requested >= 1 /\ client.status = 200 /\ client.truncated)
  => /\ client.pc = "returned"
     /\ client.out = client.complete
     /\ client.requested = 1

\* C12: in remote-API mode, after runUnifiedSync returns with the transaction
\* and account fetches fulfilled, every fetched transaction and every fetched
\* account has a local row under its natural key (connectionId, remoteId),
\* as the catalog items have.
C12_ApiOrdersAndAccountsStored ==
  \A r \in Requests :
    (/\ Returned(r) /\ run[r].method = "api"
     /\ stores[run[r].store].exists
     /\ task[r]["orders"].pc = "fulfilled"
     /\ task[r]["customers"].pc = "fulfilled")
    => /\ \A o \in task[r]["orders"].todo :
            FindByKey(orders, run[r].store, o.id) # {}
       /\ \A u \in task[r]["customers"].todo :
            FindByKey(customers, run[r].store, u.id) # {}

\* run r is the first run of its store, no transport or storage call has
\* failed, and the run has finished with its three tasks returned
FirstRunDone(r) ==
  /\ Done(r) /\ run[r].after = {} /\ faults = 0
  /\ AllFulfilled(r)

\* the counts the first run over LinkSource reports and the rows it leaves
FirstRunCounts(r) ==
  /\ run[r].result["products"].created = 2
  /\ run[r].result["customers"].created = 1
  /\ run[r].result["orders"].created = 1
  /\ task[r]["orders"].res.orderItemsCreated = 1
  /\ run[r].rowsAtEnd = [products |-> 2, customers |-> 1, orders |-> 1,
                         orderItems |-> 1]

C13_LinkLeftNull ==
  \E r \in Requests :
    /\ FirstRunDone(r) /\ FirstRunCounts(r)
    /\ \E o \in RowsOf(orders, run[r].store) : o.customerId = NoCustomer

\* C14: every tracker entry in status running eventually reaches completed or
\* error, provided every transport and storage call returns or fails; and an
\* entry in status completed or error returns to running only through a new
\* start request for its connection.
C14_RunningEntryTerminates ==
  /\ \A s \in Stores :
       (GET(s).status = "running") ~> (GET(s).status \in {"completed", "error"})
  /\ [][\A s \in Stores :
          (GET(s).status \in {"completed", "error"} /\ GET(s)'.status = "running")
          => \E q \in Requests :
               /\ req[q].pc = "found" /\ req[q].store = s
               /\ req'[q].response = "Background sync started"
               /\ syncProgress'[s] = q]_vars

\* the entry of a connection ended, was set running again by a second start
\* request and ended again
C14_Witness ==
  \E r \in Requests :
    /\ Done(r) /\ run[r].after # {}
    /\ syncProgress[run[r].store] = r
    /\ GET(run[r].store).status \in {"completed", "error"}
    /\ \A p \in run[r].after : entries[p].status \in {"completed", "error"}

\* what the local store and the tracker hold for connection b: its rows in
\* the four tables, its three cursors and its tracker entry
Belongings(b) ==
  [products   |-> RowsOf(products, b),
   customers  |-> RowsOf(customers, b),
   orders     |-> RowsOf(orders, b),
   orderItems |-> ItemsOf(b),
   cursors    |-> stores[b].lastSyncAt,
   entry      |-> GET(b)]

\* C15: a step of a run for connection A (from the start request that
\* launches it to the end of performBackgroundSync) creates, updates or
\* deletes no CatalogItem, Transaction, LineItem, Account, cursor or tracker
\* entry of another connection B.
C15_RunTouchesOnlyItsConnection ==
  [][\A r \in Requests :
       (run'[r] # run[r] \/ task'[r] # task[r])
       => \A b \in Stores \ {run'[r].store} : Belongings(b)' = Belongings(b)]_vars

\* a run for one connection is reconciling while the other connection already
\* holds rows with the same remote ids, cursors and a tracker entry
C15_Witness ==
  \E r \in Requests, b \in Stores :
    /\ b # run[r].store
    /\ task[r]["orders"].pc = "cursor" /\ task[r]["products"].pc = "cursor"
    /\ RowsOf(orders, b) # {} /\ RowsOf(products, b) # {}
    /\ ItemsOf(b) # {} /\ RowsOf(customers, b) # {}
    /\ GET(b).status # "idle"
    /\ RowsOf(orders, run[r].store) # {} /\ ItemsOf(run[r].store) # {}

\* C16: within one reconciliation pass, when reconciling a single record
\* raises, the error counter of the pass grows by exactly one for that record,
\* every other fetched record of the pass is still reconciled, and the pass
\* returns instead of raising.
C16_RecordErrorCountedOnce ==
  [][\A r \in Requests :
       /\ \A e \in Entities :
            (/\ task[r][e].pc \in {"rows", "guests"}
             /\ task'[r][e].todo # task[r][e].todo
             /\ faults' > faults)
            => /\ task'[r][e].res.errors = task[r][e].res.errors + 1
               /\ task'[r][e].pc # "rejected"
               /\ Cardinality(task'[r][e].todo) = Cardinality(task[r][e].todo) - 1
       /\ (/\ run[r].pc = "apiProducts"
           /\ run'[r].apiTodo # run[r].apiTodo
           /\ faults' > faults)
          => /\ Len(run'[r].errors) = Len(run[r].errors) + 1
             /\ run'[r].pc \in {"apiProducts", "returned"}
             /\ Cardinality(run'[r].apiTodo) = Cardinality(run[r].apiTodo) - 1]_vars

\* C17: every source-datastore connection opened for a direct-datastore pass
\* or by connectWooDB is closed by the time the operation returns or raises,
\* on every path: successful pass, failed query, failed cursor update, and a
\* ping that fails right after the connection was created.
C17_ConnectionsClosed ==
  \A r \in Requests, e \in Entities :
    task[r][e].pc \in {"fulfilled", "rejected"} => task[r][e].conn # "open"

\* the characters of a text
Chars(s) == {s[i] : i \in 1..Len(s)}

\* C18: for every prefix and every table name, wpTable either raises or
\* returns a backtick-quoted identifier whose content between the two
\* backticks is non-empty and consists only of characters of A-Z a-z 0-9 _.
C18_WpTableQuotedIdentifier ==
  /\ call.pc = "raised" => call.out = <<>>
  /\ call.pc = "returned" =>
       /\ Len(call.out) >= 3
       /\ call.out[1] = "bq" /\ call.out[Len(call.out)] = "bq"
       /\ \A i \in 2..(Len(call.out) - 1) : call.out[i] \in WordChars

\* wpTable returned for a prefix with a backtick and a table name with a
\* semicolon
C18_Witness ==
  /\ call.pc = "returned"
  /\ "bq" \in Chars(call.dbPrefix)
  /\ ";" \in Chars(call.tableName)

\* name starts with prefix
StartsWith(name, prefix) ==
  Len(prefix) <= Len(name) /\ SubSeq(name, 1, Len(prefix)) = prefix

\* the elements of a sequence
Elems(s) == {s[i] : i \in 1..Len(s)}

\* prefix discovery has answered a request with complete credentials and no
\* datastore call failed
Discovered == call.pc = "answered" /\ call.creds /\ ~call.dbFailed

\* C19: prefix discovery fails with the not-found error when no table of the
\* schema ends in a canonical suffix, and in every other case reports as
\* primary candidate a prefix that some table of the schema starts with, with
\* the remaining distinct candidates listed as alternatives.
C19_PrimaryCandidateIsAPrefix ==
  Discovered =>
    IF \A n \in call.schema : ~LikeSuffix(n)
    THEN call.resp.status = 404 /\ ~call.resp.success
    ELSE /\ call.resp.status = 200 /\ call.resp.success
         /\ \E n \in call.schema : StartsWith(n, call.resp.prefix)
         /\ LET alt == call.resp.alternativePrefixes IN
              /\ \A i, j \in 1..Len(alt) : i # j => alt[i] # alt[j]
              /\ call.resp.prefix \notin Elems(alt)
              /\ Elems(alt) \cup {call.resp.prefix} =
                   {SubSeq(n, 1, Len(n) - 1) : n \in {m \in call.schema : LikeSuffix(m)}}

\* C20: a route operation called without an authenticated session answers
\* 401 and performs no further action: it opens no datastore connection,
\* reads nothing and changes no state.
C20_NoSessionAnswers401 ==
  (call.pc \in {"verify", "answered"} /\ ~call.session)
  => /\ call.pc = "answered"
     /\ call.resp.status = 401
     /\ call.conn = "none"
     /\ call.rows = <<>>

\* C21: a status poll for a connection never changes the progress tracker; it
\* returns the idle placeholder (status idle, progress 0) exactly when the
\* tracker has no entry for the connection, and otherwise the entry's current
\* status, progress, message, startTime, endTime and error unchanged.
C21_PollReadsEntry ==
  [][(call' # call /\ call'.pc = "polled")
     => /\ UNCHANGED <<syncProgress, entries>>
        /\ call'.status = 200 =>
             LET s == call'.store
                 d == call'.data
             IN IF syncProgress[s] = NoEntry
                THEN d.status = "idle" /\ d.progress = 0
                ELSE LET ent == entries[syncProgress[s]] IN
                     /\ d.status # "idle"
                     /\ d.status = ent.status /\ d.progress = ent.progress
                     /\ d.message = ent.message /\ d.startTime = ent.startTime
                     /\ d.endTime = ent.endTime /\ d.error = ent.error]_vars

\* a poll was answered with the entry of a run in progress
C21_Witness ==
  /\ call.pc = "polled" /\ call.status = 200
  /\ call.data.status = "running" /\ call.data.progress > 0
  /\ syncProgress[call.store] # NoEntry

\* C22: a direct-datastore pass for one entity that raises before finishing
\* (connection failure, failed query, failed cursor update) leaves the cursor
\* of that entity unchanged, and a pass that returns changes only the cursor
\* of its own entity and none of the other two.
C22_CursorFrame ==
  [][\A r \in Requests, e \in Entities :
       LET s == run[r].store IN
       /\ (task[r][e].pc # "rejected" /\ task'[r][e].pc = "rejected")
          => stores'[s].lastSyncAt = stores[s].lastSyncAt
       /\ (task[r][e].pc # "fulfilled" /\ task'[r][e].pc = "fulfilled"
           /\ run[r].method = "db")
          => \A x \in Entities \ {e} :
               stores'[s].lastSyncAt[x] = stores[s].lastSyncAt[x]
       /\ (UNCHANGED task) => UNCHANGED stores]_vars

\* the catalog pass raised and its cursor is still null, while the
\* transactions pass of the same run returned and advanced its own
C22_Witness ==
  \E r \in Requests :
    /\ Done(r) /\ run[r].after = {}
    /\ task[r]["products"].pc = "rejected"
    /\ task[r]["orders"].pc = "fulfilled"
    /\ stores[run[r].store].lastSyncAt["products"] = 0
    /\ stores[run[r].store].lastSyncAt["orders"] > 0

\* C23: after a direct-datastore pass that returns and advances the cursor,
\* every source record of the entity modified later than the cursor the pass
\* started from was fetched by the pass (and so reconciled or counted as an
\* error) or is still later than the advanced cursor: the advanced cursor
\* skips no record, also when a record is modified while the pass runs.
C23_CursorSkipsNoRecord ==
  [][\A r \in Requests, e \in {"products", "orders"} :
       (task[r][e].pc = "cursor" /\ task'[r][e].pc = "fulfilled")
       => LET s == run[r].store
              records == IF e = "products" THEN src[s].products ELSE src[s].orders
          IN \A x \in records :
               x.modified > lastSync(r, e)
               => \/ x \in task[r][e].rows
                  \/ x.modified > stores'[s].lastSyncAt[e]]_vars

\* C24: when a transaction of a registered customer is reconciled, its Account
\* link is set to the local Account of the same connection whose remote id
\* equals the customer remote id of the transaction, and is left null when no
\* such local Account exists; in both cases the transaction is upserted and
\* not counted as an error.
C24_LinkByRemoteId ==
  [][\A r \in Requests :
       (/\ task[r]["orders"].pc = "rows"
        /\ task'[r]["orders"].todo # task[r]["orders"].todo
        /\ faults' = faults /\ stores[run[r].store].exists)
       => \A p \in task[r]["orders"].todo \ task'[r]["orders"].todo :
            LET s == run[r].store
                o == SourceOrder(s, p.id)
                owner == FindByKey(customers, s, o.customer)
                row == {x \in orders' : x.storeId = s /\ x.wooId = p.id}
            IN /\ task'[r]["orders"].res.errors = task[r]["orders"].res.errors
               /\ row # {}
               /\ o.customer # 0 =>
                    \A x \in row :
                      IF owner = {} THEN x.customerId = NoCustomer
                      ELSE \E c \in owner : x.customerId = c.id]_vars

\* C25: if a transaction was reconciled with a null Account link because its
\* account was not yet local, then once the account has been reconciled,
\* further sync runs of the connection with an unchanged source set the
\* Account link: after a further complete run, no transaction whose account
\* is local has a null link.
C25_LaterRunCompletesLink ==
  \A r1 \in Requests, r2 \in Requests :
    (/\ SecondRun(r1, r2)
     /\ AllFulfilled(r1) /\ AllFulfilled(r2)
     /\ faults = 0)
    => \A o \in RowsOf(orders, run[r2].store) :
         FindByEmail(run[r2].store, o.billingEmail) # {}
         => o.customerId # NoCustomer

\* the objects the answer to the request for page p holds
Served(p) ==
  IF p = 1 THEN client.complete
  ELSE IF p - 1 <= Len(client.later) THEN client.later[p - 1].complete
  ELSE <<>>

\* the status of the answer to the request for page p
ServedStatus(p) ==
  IF p = 1 THEN client.status
  ELSE IF p - 1 <= Len(client.later) THEN client.later[p - 1].status
  ELSE 200

\* the objects of pages 1..n in page order
RECURSIVE ServedUpTo(_)
ServedUpTo(n) == IF n = 0 THEN <<>> ELSE ServedUpTo(n - 1) \o Served(n)

\* the first page the source answers with fewer than PerPage objects or with
\* a status other than 200
FirstShortPage ==
  Min({p \in 1..(MaxPages + 1) :
         ServedStatus(p) # 200 \/ Len(Served(p)) < PerPage})

\* C26: fetchAll requests pages 1, 2, 3, ... strictly in order, stops after
\* the first page that yields fewer items than the page size (50) and requests
\* no page after it; it terminates whenever the source eventually answers with
\* such a page, and its result is the concatenation of the fetched pages in
\* page order.  Termination is stated by a variant: every step of the loop
\* requests exactly one further page, goes on only after a full page, and the
\* number of requests never passes the first short page of the source.
C26_PagesInOrder ==
  /\ [](client.pc = "fetch" =>
          /\ client.page = client.requested + 1
          /\ \A p \in 1..client.requested :
               ServedStatus(p) = 200 /\ Len(Served(p)) = PerPage)
  /\ []((client.pc = "returned" /\ \A p \in 1..client.requested : ServedStatus(p) = 200)
          => /\ client.requested >= 1
             /\ Len(Served(client.requested)) < PerPage
             /\ \A p \in 1..(client.requested - 1) : Len(Served(p)) = PerPage
             /\ client.out = ServedUpTo(client.requested))
  /\ [](client.requested <= FirstShortPage)
  /\ [][client.pc = "fetch" =>
          /\ client'.requested = client.requested + 1
          /\ client'.pc = "fetch" <=> /\ ServedStatus(client.page) = 200
                                      /\ Len(Served(client.page)) = PerPage]_vars

\* fetchAll returned two full pages and a short third one
C26_Witness ==
  /\ client.pc = "returned"
  /\ client.requested = 3
  /\ Len(client.out) = 2 * PerPage + 1

\* the message the report of the remote-API branch holds for a failed fetch
\* of the collection e (orchestrator.ts:257-279)
ApiFailMsg(e) ==
  CASE e = "products" -> "Products API fetch failed"
    [] e = "orders" -> "Orders API fetch failed"
    [] e = "customers" -> "Customers API fetch failed"

\* the number of records of the collection e the report of run r counts, the
\* catalog items whose upsert failed included
Reported(r, e) ==
  IF e = "products"
  THEN run[r].result[e].count
       + Cardinality({i \in 1..Len(run[r].errors) : run[r].errors[i] = "Product error"})
  ELSE run[r].result[e].count

\* C27: if any page request of a remote-API fetch is answered 404 or 401, the
\* fetch returns the canned fixture of that collection and nothing else; any
\* other non-success status makes the fetch raise, which the report records
\* as that collection's failure while the other two collections are reported
\* as their own fetches ended.
C27_MockOrRaise ==
  LET e == client.path
      st == ServedStatus(FirstShortPage)
  IN
  /\ client.pc = "returned" /\ st \in {404, 401} => client.out = getMockData(e)
  /\ client.pc = "returned" <=> (client.requested = FirstShortPage /\ st \in {200, 404, 401})
  /\ client.pc = "raised" <=> (client.requested = FirstShortPage /\ st \notin {200, 404, 401})
  /\ \A r \in Requests :
       /\ task[r][e].pc = "fulfilled" /\ st \in {404, 401}
            => task[r][e].todo = RecordsOf(e, getMockData(e))
       /\ task[r][e].pc = "rejected" <=> (task[r][e].pc \in {"fulfilled", "rejected"}
                                           /\ st \notin {200, 404, 401})
       /\ run[r].pc \in {"returned", "done"} =>
            \A e2 \in Entities :
              /\ task[r][e2].pc \in {"fulfilled", "rejected"}
              /\ task[r][e2].pc = "rejected" <=> ApiFailMsg(e2) \in Elems(run[r].errors)
              /\ task[r][e2].pc = "fulfilled"
                   => Reported(r, e2) = Cardinality(task[r][e2].todo)

\* a run ended whose fetch of one collection got a full first page and then a
\* 401: the fetch gave the two fixture records and not the PerPage records of
\* the first page
C27_Witness ==
  \E r \in Requests :
    /\ run[r].pc = "done"
    /\ Len(client.complete) = PerPage
    /\ ServedStatus(2) = 401
    /\ task[r][client.path].pc = "fulfilled"
    /\ Cardinality(task[r][client.path].todo) = 2

\* C28: every mutation of a store's tracker entry is made by the start
\* request that created the entry or by the run that request launched; no
\* write of an earlier run of the store lands on an entry after a later run
\* of the store has started (every other run of the store that has started
\* had finished before the writing run began).
C28_EntryWrittenByOwnRun ==
  [][\A r \in Requests :
       entries'[r] # entries[r] =>
         \/ /\ entries[r] = NoEntryObj
            /\ req[r].pc = "found" /\ req'[r].pc = "answered"
            /\ syncProgress'[req[r].store] = r
         \/ /\ run[r].pc \notin {"idle", "done"}
            /\ run'[r] # run[r] \/ task'[r] # task[r]
            /\ syncProgress[run[r].store] = r
            /\ \A r2 \in Requests \ {r} :
                 (run[r2].pc # "idle" /\ run[r2].store = run[r].store)
                 => r2 \in run[r].after]_vars

\* two runs of one store have ended, the second started after the first had
\* finished, and each entry carries the end time and final status of its run
C28_Witness ==
  \E r1 \in Requests, r2 \in Requests :
    /\ r1 # r2
    /\ run[r1].pc = "done" /\ run[r2].pc = "done"
    /\ run[r1].store = run[r2].store
    /\ r1 \in run[r2].after
    /\ entries[r1].status = "completed" /\ entries[r1].progress = 100
    /\ entries[r2].status = "completed" /\ entries[r2].progress = 100

\* C29: when a direct-datastore pass returns, created + updated + errors
\* equals the number of records it fetched (for accounts: the registered
\* accounts plus the guests), whichever records fail and at whichever step
\* of their reconciliation.
C29_CountsAddUp ==
  \A r \in Requests, e \in Entities :
    (run[r].method = "db" /\ task[r][e].pc = "fulfilled")
    => task[r][e].res.created + task[r][e].res.updated + task[r][e].res.errors
       = task[r][e].res.fetched + task[r][e].res.guestsFetched

\* the background runs of store s that have started and not ended
ActiveBackground(s) ==
  {r \in Requests : run[r].pc \notin {"idle", "done"} /\ run[r].store = s}

\* the foreground sync requests of store s that are fetching or writing
ActiveForeground(s) ==
  IF call.pc \in {"fetch", "orders", "products", "customers"} /\ call.store = s
  THEN 1 ELSE 0

\* C30: at no time are two sync executions of the same store active at once,
\* counting the background start operation (POST /api/sync/background) and
\* the foreground sync operation (POST /api/sync).
C30_OneExecutionPerStore ==
  \A s \in Stores : Cardinality(ActiveBackground(s)) + ActiveForeground(s) <= 1

====
